---- MODULE Spec2Model ----
(***************************************************************************)
(* Streaming segmentation-and-translation pipeline of the voice-segmenter  *)
(* agent: GeminiTranslator (translator.py), AudioProcessor                 *)
(* (audio_processor.py) and the room event handlers (agent.py).            *)
(*                                                                         *)
(* Texts are sequences of symbols.  A symbol is one structural character  *)
(* of JSON (brace, bracket, quote, colon, comma, backslash, blank), a      *)
(* markdown code fence, or a word: a run of characters holding none of these.   *)
(* Python values are tagged records [k, m, s]: k the type, s the payload   *)
(* of a scalar, m the members of a dict or the items of a list.            *)
(***************************************************************************)
EXTENDS Integers, Sequences, FiniteSets, TLC

(***************************************************************************)
(* Symbols                                                                 *)
(***************************************************************************)
LB == "{"
RB == "}"
LK == "["
RK == "]"
QT == "\""
CL == ":"
CM == ","
BS == "\\"
WS == " "
FenceJson == "<fence>json"
Fence == "<fence>"

(***************************************************************************)
(* Python / JSON values                                                    *)
(***************************************************************************)
NoMap == [z \in {} |-> 0]

JStr(s) == [k |-> "str", m |-> NoMap, s |-> s]
JNull == [k |-> "null", m |-> NoMap, s |-> ""]
JNum(s) == [k |-> "num", m |-> NoMap, s |-> s]
JBool(s) == [k |-> "bool", m |-> NoMap, s |-> s]
JArr(items) == [k |-> "arr", m |-> items, s |-> ""]
JObj(members) == [k |-> "obj", m |-> members, s |-> ""]

\* Python truthiness of a value (the test: not translations[lang]).
Truthy(v) ==
    CASE v.k = "str" -> v.s # ""
      [] v.k = "null" -> FALSE
      [] v.k = "num" -> v.s # "0"
      [] v.k = "bool" -> v.s = "true"
      [] v.k = "arr" -> Len(v.m) > 0
      [] v.k = "obj" -> DOMAIN v.m # {}

\* Whether len(v) is defined (str, list, dict); len(None), len(5) raise TypeError.
HasLen(v) == v.k \in {"str", "arr", "obj"}

(***************************************************************************)
(* Text helpers: str.strip, str.replace, str.index, str.rindex,     *)
(* str.count, slicing.                                                     *)
(***************************************************************************)
RECURSIVE LStrip(_)
LStrip(t) == IF Len(t) > 0 /\ t[1] = WS THEN LStrip(Tail(t)) ELSE t

RECURSIVE RStrip(_)
RStrip(t) == IF Len(t) > 0 /\ t[Len(t)] = WS THEN RStrip(SubSeq(t, 1, Len(t) - 1)) ELSE t

Strip(t) == RStrip(LStrip(t))

Remove(t, sym) == SelectSeq(t, LAMBDA c : c # sym)

Count(t, sym) == Len(SelectSeq(t, LAMBDA c : c = sym))

Contains(t, sym) == \E i \in 1..Len(t) : t[i] = sym

\* str.find: the first index >= from holding sym, 0 when there is none.
FindFrom(t, sym, from) ==
    IF \E i \in from..Len(t) : t[i] = sym
    THEN CHOOSE i \in from..Len(t) : t[i] = sym /\ \A j \in from..(i - 1) : t[j] # sym
    ELSE 0

\* str.rindex: the last index holding sym, 0 when there is none (ValueError).
RIndex(t, sym) ==
    IF Contains(t, sym)
    THEN CHOOSE i \in 1..Len(t) : t[i] = sym /\ \A j \in (i + 1)..Len(t) : t[j] # sym
    ELSE 0

Repeat(sym, n) == [i \in 1..n |-> sym]

RECURSIVE Concat(_)
Concat(t) == IF t = <<>> THEN "" ELSE t[1] \o Concat(Tail(t))

(***************************************************************************)
(* json.loads                                                              *)
(***************************************************************************)
LiteralTokens == {"null", "true", "false", "0", "5"}

Literal(w) ==
    CASE w = "null" -> JNull
      [] w \in {"true", "false"} -> JBool(w)
      [] OTHER -> JNum(w)

Fail == [ok |-> FALSE, v |-> JNull, i |-> 0]

RECURSIVE SkipWs(_, _)
SkipWs(t, i) == IF i <= Len(t) /\ t[i] = WS THEN SkipWs(t, i + 1) ELSE i

\* A string whose opening quote has been read; j is the next index.
RECURSIVE ScanString(_, _, _)
ScanString(t, j, acc) ==
    IF j > Len(t) THEN Fail
    ELSE IF t[j] = QT THEN [ok |-> TRUE, v |-> JStr(acc), i |-> j + 1]
    ELSE IF t[j] = BS
         THEN IF j + 1 <= Len(t) /\ t[j + 1] \in {QT, BS}
              THEN ScanString(t, j + 2, acc \o t[j + 1])
              ELSE Fail
    ELSE ScanString(t, j + 1, acc \o t[j])

RECURSIVE ParseValue(_, _)
RECURSIVE ParseMembers(_, _, _)
RECURSIVE ParseElements(_, _, _)

ParseValue(t, i0) ==
    LET i == SkipWs(t, i0) IN
    IF i > Len(t) THEN Fail
    ELSE CASE t[i] = QT -> ScanString(t, i + 1, "")
           [] t[i] = LB ->
                LET j == SkipWs(t, i + 1) IN
                IF j <= Len(t) /\ t[j] = RB
                THEN [ok |-> TRUE, v |-> JObj(NoMap), i |-> j + 1]
                ELSE ParseMembers(t, j, NoMap)
           [] t[i] = LK ->
                LET j == SkipWs(t, i + 1) IN
                IF j <= Len(t) /\ t[j] = RK
                THEN [ok |-> TRUE, v |-> JArr(<<>>), i |-> j + 1]
                ELSE ParseElements(t, j, <<>>)
           [] t[i] \in LiteralTokens -> [ok |-> TRUE, v |-> Literal(t[i]), i |-> i + 1]
           [] OTHER -> Fail

ParseMembers(t, i0, acc) ==
    LET i == SkipWs(t, i0) IN
    IF i > Len(t) \/ t[i] # QT THEN Fail
    ELSE LET key == ScanString(t, i + 1, "") IN
         IF ~key.ok THEN Fail
         ELSE LET c == SkipWs(t, key.i) IN
              IF c > Len(t) \/ t[c] # CL THEN Fail
              ELSE LET val == ParseValue(t, c + 1) IN
                   IF ~val.ok THEN Fail
                   ELSE LET acc2 == (key.v.s :> val.v) @@ acc
                            d == SkipWs(t, val.i) IN
                        IF d > Len(t) THEN Fail
                        ELSE IF t[d] = RB THEN [ok |-> TRUE, v |-> JObj(acc2), i |-> d + 1]
                        ELSE IF t[d] = CM THEN ParseMembers(t, d + 1, acc2)
                        ELSE Fail

ParseElements(t, i0, acc) ==
    LET val == ParseValue(t, i0) IN
    IF ~val.ok THEN Fail
    ELSE LET acc2 == Append(acc, val.v)
             d == SkipWs(t, val.i) IN
         IF d > Len(t) THEN Fail
         ELSE IF t[d] = RK THEN [ok |-> TRUE, v |-> JArr(acc2), i |-> d + 1]
         ELSE IF t[d] = CM THEN ParseElements(t, d + 1, acc2)
         ELSE Fail

\* ok = FALSE is json.JSONDecodeError (also for trailing data after the value).
JsonLoads(t) ==
    LET r == ParseValue(t, 1) IN
    IF r.ok /\ SkipWs(t, r.i) > Len(t)
    THEN [ok |-> TRUE, v |-> r.v]
    ELSE [ok |-> FALSE, v |-> JNull]

(***************************************************************************)
(* GeminiTranslator: markers, _extract_transcription_fallback,             *)
(* _parse_response                                                         *)
(***************************************************************************)
MarkerUnavailable == "[Translation unavailable]"
MarkerFiltered == "[Content filtered for safety]"
MarkerSchema == "[Translation error - schema mismatch]"
MarkerJsonError == "[Translation unavailable - JSON error]"

ErrorMarkers == {MarkerUnavailable, MarkerFiltered, MarkerSchema, MarkerJsonError}

\* The dict comprehension {lang: text for lang in langs}.
AllMarked(langs, text) == JObj([l \in langs |-> JStr(text)])

\* dict.get(key, default)
Get(d, key, default) == IF key \in DOMAIN d.m THEN d.m[key] ELSE default

\* Index of the first occurrence of "transcription" with its two quotes, 0 when
\* there is none (str.find of the quoted field name).
FindField(t) ==
    LET hit(i) == t[i] = QT /\ t[i + 1] = "transcription" /\ t[i + 2] = QT IN
    IF \E i \in 1..(Len(t) - 2) : hit(i)
    THEN CHOOSE i \in 1..(Len(t) - 2) : hit(i) /\ \A j \in 1..(i - 1) : ~hit(j)
    ELSE 0

\* The while loop of the fallback: the first quote after quote_start that no
\* backslash precedes, 0 when the text ends first.
ClosingQuote(t, quote_start) ==
    LET closes(i) == t[i] = QT /\ t[i - 1] # BS IN
    IF \E i \in (quote_start + 1)..Len(t) : closes(i)
    THEN CHOOSE i \in (quote_start + 1)..Len(t) :
            closes(i) /\ \A j \in (quote_start + 1)..(i - 1) : ~closes(j)
    ELSE 0

\* The quoted field name is three symbols long; the search for the opening
\* quote of the value starts one place after it.
ExtractTranscriptionFallback(response_text) ==
    LET start == FindField(response_text)
        quote_start == FindFrom(response_text, QT, start + 3 + 1)
        quote_end == ClosingQuote(response_text, quote_start)
    IN  IF start # 0 /\ quote_start # 0 /\ quote_end # 0
        THEN Concat(SubSeq(response_text, quote_start + 1, quote_end - 1))
        ELSE MarkerUnavailable

\* cleaned after strip and the removal of the markdown fences.
Unfenced(response_text) ==
    Strip(Remove(Remove(Strip(response_text), FenceJson), Fence))

\* The branch taken when rindex finds no closing brace.
RepairTruncated(tail) ==
    LET missing_braces == Count(tail, LB) - Count(tail, RB) IN
    IF missing_braces > 0 THEN tail \o Repeat(RB, missing_braces) ELSE tail

\* The text handed to json.loads.
CleanResponse(response_text) ==
    LET cleaned == Unfenced(response_text) IN
    IF Contains(cleaned, LB)
    THEN LET start == FindFrom(cleaned, LB, 1)
             last == RIndex(cleaned, RB) IN
         IF last # 0
         THEN SubSeq(cleaned, start, last)
         ELSE RepairTruncated(SubSeq(cleaned, start, Len(cleaned)))
    ELSE cleaned

\* The validation loop over expected_languages on a dict.
FillMissing(members, expected_languages) ==
    [l \in DOMAIN members \cup expected_languages |->
        IF l \in expected_languages /\ (l \notin DOMAIN members \/ ~Truthy(members[l]))
        THEN JStr(MarkerSchema)
        ELSE members[l]]

Returned(transcription, translations) ==
    [exc |-> "none", transcription |-> transcription, translations |-> translations]

Raised(exc) == [exc |-> exc, transcription |-> JNull, translations |-> JNull]

\* No return value yet.
Pending == Raised("pending")

\* The try block of _parse_response: its return value, or the exception it
\* raises.  parsed.get on a non-dict is an AttributeError; the membership
\* test, the indexing or the item assignment on translations that is no
\* dict is a TypeError.
ParseBody(response_text, expected_languages) ==
    LET loaded == JsonLoads(CleanResponse(response_text)) IN
    IF ~loaded.ok THEN Raised("JSONDecodeError")
    ELSE IF loaded.v.k # "obj" THEN Raised("AttributeError")
    ELSE LET transcription == Get(loaded.v, "transcription", JStr(""))
             translations == Get(loaded.v, "translations", JObj(NoMap)) IN
         IF expected_languages = {} THEN Returned(transcription, translations)
         ELSE IF translations.k # "obj" THEN Raised("TypeError")
         ELSE Returned(transcription, JObj(FillMissing(translations.m, expected_languages)))

\* The handler of json.JSONDecodeError.
OnJsonDecodeError(response_text, expected_languages) ==
    Returned(JStr(ExtractTranscriptionFallback(response_text)),
             AllMarked(expected_languages, MarkerJsonError))

\* The handler of every other Exception.
OnOtherException == Returned(JStr(""), JObj(NoMap))

ParseResponse(response_text, expected_languages) ==
    LET body == ParseBody(response_text, expected_languages) IN
    CASE body.exc = "none" -> body
      [] body.exc = "JSONDecodeError" -> OnJsonDecodeError(response_text, expected_languages)
      [] OTHER -> OnOtherException

(***************************************************************************)
(* Model responses.  Each document is the text of one response of the      *)
(* model service; a truncated response is a prefix of a document.          *)
(***************************************************************************)
Q(w) == <<QT, w, QT>>
KV(key, value) == Q(key) \o <<CL>> \o value
Braced(members) == <<LB>> \o members \o <<RB>>
Both(a, b) == a \o <<CM>> \o b

Hello == KV("transcription", Q("Hello"))
EsFr == KV("translations", Braced(Both(KV("es", Q("Hola")), KV("fr", Q("Salut")))))
EsOnly == KV("translations", Braced(KV("es", Q("Hola"))))

DocFull == Braced(Both(Hello, EsFr))
DocEsOnly == Braced(Both(Hello, EsOnly))
DocEmptyFr ==
    Braced(Both(Hello, KV("translations", Braced(Both(KV("es", Q("Hola")), KV("fr", <<QT, QT>>))))))
DocNumbers ==
    Braced(Both(Hello, KV("translations", Braced(Both(KV("es", <<"0">>), KV("fr", <<"5">>))))))
DocNullTranslations == Braced(Both(Hello, KV("translations", <<"null">>)))
DocStringTranslations == Braced(Both(Hello, KV("translations", Q("es"))))
DocListTranslations == Braced(Both(Hello, KV("translations", <<LK>> \o Q("es") \o <<RK>>)))
DocNullTranscription == Braced(Both(KV("transcription", <<"null">>), EsFr))
DocNumberTranscription == Braced(Both(KV("transcription", <<"5">>), EsFr))
DocListTranscription == Braced(Both(KV("transcription", <<LK>> \o Q("Hello") \o <<RK>>), EsFr))
DocEscaped == Braced(Both(KV("transcription", <<QT, "He", BS, QT, "llo", QT>>), EsOnly))
DocBraceInString == Braced(Both(KV("transcription", <<QT, "a", RB, "b", QT>>), EsOnly))
DocNoTranscription == Braced(EsFr)
DocTranscriptionOnly == Braced(Hello)
DocReordered == Braced(Both(EsOnly, Hello))
DocTrailing == Braced(Both(Hello, EsOnly)) \o <<WS, "done">>
DocPrefixed == <<"Sure", CL, WS>> \o Braced(Both(Hello, EsFr))
DocFenced == <<FenceJson, WS>> \o Braced(Both(Hello, EsOnly)) \o <<WS, Fence>>
DocSpaced == <<LB, WS>> \o Both(Hello, EsOnly) \o <<WS, RB, WS>>
DocTopList == <<LK>> \o Q("Hello") \o <<RK>>
DocTopString == Q("Hello")
DocTopNull == <<"null">>
DocPlain == <<"Hello">>

Documents ==
    { DocFull, DocEsOnly, DocEmptyFr, DocNumbers, DocNullTranslations, DocStringTranslations,
      DocListTranslations, DocNullTranscription, DocNumberTranscription, DocListTranscription,
      DocEscaped, DocBraceInString, DocNoTranscription, DocTranscriptionOnly, DocReordered,
      DocTrailing, DocPrefixed, DocFenced, DocSpaced, DocTopList, DocTopString, DocTopNull,
      DocPlain }

\* A response cut one symbol short.
Cut(d) == SubSeq(d, 1, Len(d) - 1)

\* Every response text: the documents and their truncations.
ResponseTexts == UNION { { SubSeq(d, 1, n) : n \in 0..Len(d) } : d \in Documents }

\* Language codes a caller may request.
LanguageCodes == {"es", "fr", "ar"}

\* Responses the engine runs are given.
EngineTexts ==
    { DocFull, DocEsOnly, DocEmptyFr, DocNullTranslations, DocStringTranslations,
      DocNullTranscription, DocListTranscription, DocNoTranscription, DocTranscriptionOnly,
      DocTopList, DocPlain, Cut(DocFull), Cut(DocTranscriptionOnly) }

\* Target-language lists the engine runs are called with.
TargetLists == SUBSET {"es", "fr"}

(***************************************************************************)
(* The model service: one generate_content request ends in an exception    *)
(* of the client or in a response.  A response has candidates or none;     *)
(* its first candidate has content parts or none, and a finish reason;     *)
(* response.text is the text of the parts, None when they hold no text.    *)
(***************************************************************************)
\* The finish reason the code tests for, and two reasons that are not it.
SAFETY == 2
STOP == SAFETY - 1
OTHER_REASON == SAFETY + 1

NoResponse == [candidates |-> FALSE, parts |-> FALSE, finish_reason |-> 0,
               has_text |-> FALSE, text |-> <<>>]

Blocked(reason) == [candidates |-> TRUE, parts |-> FALSE, finish_reason |-> reason,
                    has_text |-> FALSE, text |-> <<>>]

NoCandidates == NoResponse

TextResponse(t) == [candidates |-> TRUE, parts |-> TRUE, finish_reason |-> STOP,
                    has_text |-> TRUE, text |-> t]

NoTextResponse == [candidates |-> TRUE, parts |-> TRUE, finish_reason |-> STOP,
                   has_text |-> FALSE, text |-> <<>>]

\* Exceptions of the client: one of the retried classes, one Exception outside them.
ClientExceptions == {"ConnectionError", "RuntimeError"}

Outcome(exc, response) == [exc |-> exc, response |-> response]

\* What the code can tell apart in an outcome.
Class(outcome) ==
    IF outcome.exc # "none" THEN outcome.exc
    ELSE IF ~outcome.response.candidates THEN "no_candidates"
    ELSE IF ~outcome.response.parts
         THEN IF outcome.response.finish_reason = SAFETY THEN "safety" ELSE "blocked_other"
    ELSE IF ~outcome.response.has_text THEN "no_text"
    ELSE "text"

Outcomes(texts) ==
    { Outcome(e, NoResponse) : e \in ClientExceptions }
    \cup { Outcome("none", r) : r \in {NoCandidates, Blocked(SAFETY), Blocked(OTHER_REASON), NoTextResponse} }
    \cup { Outcome("none", TextResponse(t)) : t \in texts }

(***************************************************************************)
(* GeminiTranslator.process_audio_segment                                  *)
(***************************************************************************)
MaxAttempts == 2

max_context_segments == 1

context_enabled == TRUE

\* The classes of the inner except clause.
Retried(exc) == exc \in {"ValueError", "ConnectionError", "TimeoutError", "OSError"}

\* An outer clause that names only the retried classes.
OuterCatchesRetriedOnly(exc) == Retried(exc)

\* The outer except clause: except Exception.
OuterCatches(exc) == TRUE

\* A loop that goes round again after every failed attempt.
RetryAlways(attempt) == TRUE

\* The two tests "if attempt == 0: continue" inside range(MaxAttempts).
RetryAllowed(attempt) == attempt = 0 /\ attempt + 1 < MaxAttempts

InitStats == [total_requests |-> 0, successful_requests |-> 0, failed_requests |-> 0,
              cache_hits |-> 0]

Bump(stats, counter) == [stats EXCEPT ![counter] = @ + 1]

\* deque(maxlen = 2 * max_context_segments).append
DequeAppend(history, entry) ==
    LET grown == Append(history, entry) IN
    IF Len(grown) > 2 * max_context_segments THEN Tail(grown) ELSE grown

\* _build_prompt and _build_simple_prompt with no custom prompt set.
BuildPrompt(variant, source_language, target_languages) ==
    [variant |-> variant,
     task |-> IF target_languages # {} THEN "translate" ELSE "transcribe",
     source_language |-> source_language,
     target_languages |-> target_languages]

\* _build_context_parts
BuildContextParts(history) == IF ~context_enabled \/ history = <<>> THEN <<>> ELSE history

\* _build_response_schema: the required keys of the translations object.
BuildResponseSchema(target_languages) == target_languages

\* A request that keeps the prompt built before the loop on every attempt.
RequestFullPrompt(call, attempt) ==
    [contents |-> [context_parts |-> call.context_parts, audio |-> call.wav_bytes,
                   prompt |-> BuildPrompt("full", call.source_language, call.target_languages)],
     response_schema |-> BuildResponseSchema(call.target_languages)]

\* The generate_content request of one attempt.
Request(call, attempt) ==
    [contents |-> [context_parts |-> call.context_parts, audio |-> call.wav_bytes,
                   prompt |-> BuildPrompt(IF attempt = 1 THEN "simple" ELSE "full",
                                          call.source_language, call.target_languages)],
     response_schema |-> BuildResponseSchema(call.target_languages)]

NoRequest == [contents |-> [context_parts |-> <<>>, audio |-> 0,
                            prompt |-> BuildPrompt("none", "", {})],
              response_schema |-> {}]

IdleCall == [pc |-> "idle", wav_bytes |-> 0, target_languages |-> {}, source_language |-> "",
             context_parts |-> <<>>, attempt |-> 0, requests |-> 0, request |-> NoRequest,
             observed |-> <<>>, result |-> Pending]

\* The translator object and the frame of one call.
Engine(stats, history, call) == [stats |-> stats, conversation_history |-> history, call |-> call]

\* _update_history: the transcription entry is appended before translations.items()
\* is evaluated, which raises AttributeError when translations is no dict.
UpdateHistory(history, transcription, translations) ==
    IF ~context_enabled THEN [exc |-> "none", history |-> history]
    ELSE LET first == DequeAppend(history, [role |-> "user", content |-> transcription]) IN
         IF translations.k # "obj" THEN [exc |-> "AttributeError", history |-> first]
         ELSE [exc |-> "none",
               history |-> DequeAppend(first, [role |-> "model", content |-> translations])]

\* The outer except clause: count the failure and return the unavailable result;
\* an exception the clause does not catch leaves the call.
Fails(stats, history, call, exc) ==
    IF OuterCatches(exc)
    THEN Engine(Bump(stats, "failed_requests"), history,
                [call EXCEPT !.pc = "returned",
                             !.result = Returned(JStr(MarkerUnavailable),
                                                 AllMarked(call.target_languages, MarkerUnavailable))])
    ELSE Engine(stats, history, [call EXCEPT !.pc = "returned", !.result = Raised(exc)])

\* After the retry loop: count the success, update the history, log, return.
\* The log line takes len(result['transcription']), a TypeError for None,
\* numbers and booleans; no text of the model is longer than 50 characters.
Succeeds(stats, history, call, result) ==
    LET counted == Bump(stats, "successful_requests")
        updated == UpdateHistory(history, result.transcription, result.translations) IN
    IF updated.exc # "none" THEN Fails(counted, updated.history, call, updated.exc)
    ELSE IF ~HasLen(result.transcription) THEN Fails(counted, updated.history, call, "TypeError")
    ELSE Engine(counted, updated.history, [call EXCEPT !.pc = "returned", !.result = result])

\* A retry loop whose attempt number is kept on the translator: the requests
\* counted so far.
RetriesOnTranslator(stats, history, call) ==
    Engine(stats, history,
           [call EXCEPT !.attempt = stats.total_requests,
                        !.requests = call.requests + 1,
                        !.request = Request(call, stats.total_requests)])

\* The next iteration of the retry loop, up to its await.
Retries(stats, history, call) ==
    Engine(stats, history,
           [call EXCEPT !.attempt = call.attempt + 1,
                        !.requests = call.requests + 1,
                        !.request = Request(call, call.attempt + 1)])

\* An exception raised inside the inner try block.
InnerRaises(stats, history, call, exc) ==
    IF Retried(exc) /\ RetryAllowed(call.attempt)
    THEN Retries(stats, history, call)
    ELSE Fails(stats, history, call, exc)

\* A final safety block handled as any other missing response.
FilteredAsFailure(stats, history, call) == Fails(stats, history, call, "ValueError")

\* The return of the final attempt when the safety filter blocked it.
Filtered(stats, history, call) ==
    Engine(stats, history,
           [call EXCEPT !.pc = "returned",
                        !.result = Returned(JStr(MarkerFiltered),
                                            AllMarked(call.target_languages, MarkerFiltered))])

\* A blocked test that returns the filtered result only when the first attempt
\* was blocked as well.
RespondsBothBlocked(stats, history, call, response) ==
    IF ~response.candidates \/ ~response.parts
    THEN IF response.candidates /\ response.finish_reason = SAFETY
         THEN IF RetryAllowed(call.attempt)
              THEN Retries(stats, history, call)
              ELSE IF call.observed[1] = "safety"
              THEN Filtered(stats, history, call)
              ELSE Fails(stats, history, call, "ValueError")
         ELSE InnerRaises(stats, history, call, "ValueError")
    ELSE IF ~response.has_text
         THEN InnerRaises(stats, history, call, "TypeError")
         ELSE Succeeds(stats, history, call, ParseResponse(response.text, call.target_languages))

\* The response blocked test and what follows it.
Responds(stats, history, call, response) ==
    IF ~response.candidates \/ ~response.parts
    THEN IF response.candidates /\ response.finish_reason = SAFETY
         THEN IF RetryAllowed(call.attempt)
              THEN Retries(stats, history, call)
              ELSE Filtered(stats, history, call)
         ELSE InnerRaises(stats, history, call, "ValueError")
    ELSE IF ~response.has_text
         THEN InnerRaises(stats, history, call, "TypeError")
         ELSE Succeeds(stats, history, call, ParseResponse(response.text, call.target_languages))

\* An early return placed after the request counter.
SkipsAfterCounting(stats, history, wav_bytes, target_languages, source_language) ==
    Engine(Bump(stats, "total_requests"), history,
           [IdleCall EXCEPT !.pc = "returned", !.wav_bytes = wav_bytes,
                            !.target_languages = target_languages,
                            !.source_language = source_language,
                            !.result = Returned(JStr(""), JObj(NoMap))])

\* The early return on empty audio.
Skips(stats, history, wav_bytes, target_languages, source_language) ==
    Engine(stats, history,
           [IdleCall EXCEPT !.pc = "returned", !.wav_bytes = wav_bytes,
                            !.target_languages = target_languages,
                            !.source_language = source_language,
                            !.result = Returned(JStr(""), JObj(NoMap))])

\* process_audio_segment from its entry to its first await, or to its return.
Enter(stats, history, wav_bytes, target_languages, source_language) ==
    IF wav_bytes = 0
    THEN Skips(stats, history, wav_bytes, target_languages, source_language)
    ELSE LET call == [IdleCall EXCEPT !.pc = "awaiting", !.wav_bytes = wav_bytes,
                                      !.target_languages = target_languages,
                                      !.source_language = source_language,
                                      !.context_parts = BuildContextParts(history),
                                      !.requests = 1] IN
         Engine(Bump(stats, "total_requests"), history,
                [call EXCEPT !.request = Request(call, 0)])

\* process_audio_segment from the end of an await to the next await or its return.
Resume(stats, history, call, outcome) ==
    LET seen == [call EXCEPT !.observed = Append(@, Class(outcome))] IN
    IF outcome.exc # "none"
    THEN InnerRaises(stats, history, seen, outcome.exc)
    ELSE Responds(stats, history, seen, outcome.response)

(***************************************************************************)
(* State                                                                   *)
(***************************************************************************)
VARIABLES
    response_text,         \* _parse_response: argument
    expected_languages,    \* _parse_response: argument
    parse_out,             \* _parse_response: what the call gave, pending before it
    parse_calls,           \* _parse_response: calls made
    stats,                 \* GeminiTranslator.stats
    conversation_history,  \* GeminiTranslator.conversation_history
    call,                  \* the frame of the process_audio_segment call
    calls_made,            \* process_audio_segment calls started
    before,                \* stats and history when the call started
    active_languages,      \* AudioProcessor.active_languages
    source_language,       \* AudioProcessor.source_language
    source_language_code,  \* AudioProcessor.source_language_code
    segment_count,         \* AudioProcessor.segment_count
    total_segments_processed, \* AudioProcessor.total_segments_processed
    track,                 \* process_vad_events and the frame of translate_and_publish
    seg,                   \* the segment in translation: what was active, what arrived, what was published
    prev,                  \* the same for the segment translated before it
    push,                  \* push_audio_frames: forwarding frames, or past its aclose
    watch,                 \* what the track was seen to do: events handled, sends that raised
    room,                  \* the remote participants of the room and their attributes
    tasks,                 \* the process_track tasks created and not yet completed
    meter,                 \* the duration computed for the frames of one event
    boot,                  \* the worker process: environment, Config, how far prewarm got
    trans,                 \* one Translator of the translation agent and its translate tasks
    transcriber,           \* one RealtimeTranscriber, its start call and the stop calls on it
    stt,                   \* one StreamingTranscriber of main.py, its tasks and the session around it
    joined,                \* entrypoint of agent.py: handlers registered, audio tracks subscribed
    classified,            \* one call of is_teacher of agent.py: the participant and the outcome
    pair,                  \* two process_audio_segment calls in flight on one GeminiTranslator
    chat                   \* the LLM requests of one Translator of main.py

parseVars == <<response_text, expected_languages, parse_out, parse_calls>>

engineVars == <<stats, conversation_history, call, calls_made, before>>

processorVars == <<active_languages, source_language, source_language_code, segment_count,
                   total_segments_processed, track, seg, prev, push, watch,
                   room, tasks>>

taskVars == <<push, watch>>

sessionVars == <<room, tasks>>

\* The state of the units that are checked on their own.
unitVars == <<meter, boot, trans, transcriber, stt, joined, classified, pair, chat>>

vars == <<parseVars, engineVars, processorVars, unitVars>>

(***************************************************************************)
(* Bounds                                                                  *)
(***************************************************************************)
MaxCalls == 2

(***************************************************************************)
(* _parse_response as a pure function of its arguments                     *)
(***************************************************************************)
InitEngineVars ==
    /\ stats = InitStats
    /\ conversation_history = <<>>
    /\ call = IdleCall
    /\ calls_made = 0
    /\ before = [stats |-> InitStats, conversation_history |-> <<>>]

\* AudioProcessor.__init__, and process_vad_events waiting for its first event.
NoCaption == [kind |-> "none", language |-> "", text |-> JNull]

IdleTrack == [pc |-> "waiting", target_languages |-> {}, transcription_due |-> FALSE,
              transcription |-> JNull, translations |-> NoMap, remaining |-> {},
              current |-> NoCaption]

NoSegment == [active_at_start |-> {}, added |-> {}, published |-> <<>>]

NoneBefore == [added |-> {}, languages |-> {}]

\* The people who may join the room: one whose metadata says teacher, one
\* named 'Guest Speaker', one student.
Participants == {"teacher", "guest", "student"}

Absent == "<absent>"

NotInRoom == [connected |-> FALSE, speaking_language |-> Absent, captions_language |-> Absent]

\* The messages of the teacher, and one Translator of main.py seen through
\* its LLM requests: the cache, the context of the latest request and its
\* message, the requests made, the messages sent to the LLM so far and the
\* streams still open.
ChatMessages == {"Hello", "Thanks", "Goodbye"}

NoChat ==
    [translation_cache |-> {}, cache_hits |-> 0, calls |-> 0, sent |-> <<>>, message |-> "",
     requests |-> 0, earlier |-> <<>>, streaming |-> [m \in ChatMessages |-> 0]]

\* The tasks that call the one translator of the worker, each with the frame
\* of its call, the translator as the call found it, and the outcomes of its
\* generate_content awaits.
Callers == {1, 2}

NoPair ==
    [frames |-> [i \in Callers |-> IdleCall],
     entry |-> [i \in Callers |-> [stats |-> InitStats, conversation_history |-> <<>>]],
     given |-> [i \in Callers |-> <<>>]]

NoClassified ==
    [pc |-> "new", value |-> FALSE,
     participant |-> [metadata |-> [present |-> FALSE, text |-> <<>>], speaking_language |-> Absent,
                      name |-> [present |-> FALSE, text |-> <<>>]]]

NoMeter == [pc |-> "idle", frames |-> <<>>, sample_rate |-> 0, total_samples |-> 0]

ConfigNames == {"LIVEKIT_URL", "LIVEKIT_API_KEY", "LIVEKIT_API_SECRET",
                "GOOGLE_CLOUD_PROJECT", "GEMINI_API_KEY"}

NoBoot == [pc |-> "unloaded", environ |-> [n \in ConfigNames |-> Absent],
           config |-> [n \in ConfigNames |-> ""], errors |-> <<>>, raised |-> "none",
           translator |-> FALSE]

\* The message texts whose translate calls are followed one by one; every
\* other text is translated once and counted in fresh.
Messages == {"Hello"}

TaskNames == {"t1", "t2"}

\* A translate call: its message, whether it found the text in the cache, and
\* what had happened to the text when it was called (translated before,
\* translated and stored before).
NoCall == [message |-> "", hit |-> FALSE, repeat |-> FALSE, kept |-> FALSE]

NoTask == [pc |-> "idle", call |-> NoCall]

NoLast == [outcome |-> "none", call |-> NoCall, text |-> "", marker |-> FALSE, language |-> "",
           llm_failed |-> FALSE, raised |-> FALSE]

NoTranslator ==
    [translation_cache |-> [m \in Messages |-> Absent], fresh |-> 0, cache_hits |-> 0,
     error_count |-> 0, success_count |-> 0, llm_requests |-> [m \in Messages |-> 0],
     started |-> 0, succeeded |-> {}, kept |-> {}, task |-> [t \in TaskNames |-> NoTask], last |-> NoLast]

\* Who calls stop on the transcriber: the finally of start, the task the
\* participant_disconnected handler creates, the finally of entrypoint.
StopCallers == {"start", "disconnect", "shutdown"}

NoTranscriber ==
    [active |-> FALSE, session |-> FALSE, opened |-> FALSE, closes |-> 0, error_count |-> 0,
     start |-> "new", ended_by |-> "none", stop |-> [c \in StopCallers |-> "idle"]]

NoStreaming ==
    [session |-> "running", active |-> FALSE, start |-> "new", ended_by |-> "none",
     stt_stream |-> "none", forward_task |-> "none", frames_processed |-> 0,
     translating |-> 0, cancelled |-> 0]

NoEvent == [type |-> "none", frames |-> 0]

NoWatch == [event |-> NoEvent, ends |-> 0, speech_open |-> FALSE, failed |-> {},
            hung |-> FALSE]

InitProcessorVars ==
    /\ push = "pushing"
    /\ watch = NoWatch
    /\ room = [p \in Participants |-> NotInRoom]
    /\ tasks = <<>>
    /\ meter = NoMeter
    /\ boot = NoBoot
    /\ trans = NoTranslator
    /\ transcriber = NoTranscriber
    /\ stt = NoStreaming
    /\ joined = [registered |-> FALSE, subscribed |-> {}]
    /\ classified = NoClassified
    /\ pair = NoPair
    /\ chat = NoChat
    /\ active_languages = {}
    /\ source_language = "English"
    /\ source_language_code = "en"
    /\ segment_count = 0
    /\ total_segments_processed = 0
    /\ track = IdleTrack
    /\ seg = NoSegment
    /\ prev = NoneBefore

InitParseVars ==
    /\ response_text = <<>>
    /\ expected_languages = {}
    /\ parse_out = Pending
    /\ parse_calls = 0

InitParse ==
    /\ response_text \in ResponseTexts
    /\ expected_languages \in SUBSET LanguageCodes
    /\ parse_out = Pending
    /\ parse_calls = 0
    /\ InitEngineVars
    /\ InitProcessorVars

ParseResponseCall ==
    /\ parse_out.exc = "pending"
    /\ parse_out' = ParseResponse(response_text, expected_languages)
    /\ parse_calls' = parse_calls + 1
    /\ UNCHANGED <<response_text, expected_languages, engineVars, processorVars, unitVars>>

NextParse == ParseResponseCall

SpecParse == InitParse /\ [][NextParse]_vars

(***************************************************************************)
(* process_audio_segment called directly                                   *)
(***************************************************************************)
WavSizes == {0, 44}

SourceLanguages == {"English"}

InitEngine == InitParseVars /\ InitEngineVars /\ InitProcessorVars

Install(engine) ==
    /\ stats' = engine.stats
    /\ conversation_history' = engine.conversation_history
    /\ call' = engine.call

ProcessAudioSegment ==
    /\ call.pc \in {"idle", "returned"}
    /\ calls_made < MaxCalls
    /\ \E wav_bytes \in WavSizes, target_languages \in TargetLists,
          language \in SourceLanguages :
            Install(Enter(stats, conversation_history, wav_bytes, target_languages, language))
    /\ calls_made' = calls_made + 1
    /\ before' = [stats |-> stats, conversation_history |-> conversation_history]
    /\ UNCHANGED <<parseVars, processorVars, unitVars>>

ModelResponds ==
    /\ call.pc = "awaiting"
    /\ \E outcome \in Outcomes(EngineTexts) :
            Install(Resume(stats, conversation_history, call, outcome))
    /\ UNCHANGED <<calls_made, before, parseVars, processorVars, unitVars>>

NextEngine == ProcessAudioSegment \/ ModelResponds

SpecEngine == InitEngine /\ [][NextEngine]_vars

(***************************************************************************)
(* AudioProcessor: one process_track task draining the VAD stream, and the *)
(* events that change the processor while it runs                          *)
(***************************************************************************)
MaxSegments == 2

\* The translator the agent hands to the processor.
HasTranslator == TRUE

\* Codes students ask captions in, codes the teacher announces.
CaptionLanguages == {"es", "ar"}

SpeakingLanguages == {"en"}

\* The changed_attributes of one participant_attributes_changed event.
ChangedAttributes ==
    { [speaking_language |-> s, captions_language |-> c] :
        s \in SpeakingLanguages \cup {Absent}, c \in CaptionLanguages \cup {Absent} }

VadEventTypes == {"START_OF_SPEECH", "END_OF_SPEECH"}

FrameCounts == {0, 1}

\* _get_language_name; a code outside the table is upper-cased.
GetLanguageName(code) ==
    CASE code = "en" -> "English"
      [] code = "es" -> "Spanish"
      [] code = "fr" -> "French"
      [] code = "nl" -> "Dutch"
      [] code = "ar" -> "Arabic"
      [] OTHER -> "upper " \o code

\* A selection that switches the language off when it is made again.
AddToggles(active, language_code) ==
    IF language_code \in active THEN active \ {language_code} ELSE active \cup {language_code}

add_language(active, language_code) ==
    IF language_code \notin active THEN active \cup {language_code} ELSE active

remove_language(active, language_code) ==
    IF language_code \in active THEN active \ {language_code} ELSE active

\* convert_to_wav_bytes: a header and two bytes a sample.
ConvertToWavBytes(frames) == 44 + 2 * frames

\* The service answers within the response schema of the request: every
\* required language, or all but one.
TranslationOf(language) ==
    CASE language = "es" -> "Hola"
      [] language = "fr" -> "Salut"
      [] language = "ar" -> "Marhaban"
      [] OTHER -> "Hello"

RECURSIVE Members(_)
Members(languages) ==
    IF languages = {} THEN <<>>
    ELSE LET l == CHOOSE x \in languages : TRUE
             rest == Members(languages \ {l})
             member == KV(l, Q(TranslationOf(l)))
         IN  IF rest = <<>> THEN member ELSE Both(member, rest)

Answer(languages) == Braced(Both(Hello, KV("translations", Braced(Members(languages)))))

ConformingTexts(schema) ==
    {Answer(schema)} \cup { Answer(schema \ {l}) : l \in schema }

\* An exception of the retried classes, or a text.
SessionOutcomes(request) ==
    { Outcome("ConnectionError", NoResponse) }
    \cup { Outcome("none", TextResponse(t)) : t \in ConformingTexts(request.response_schema) }

\* The set itself handed to the call.
PassedSet(copied, live) == live

\* list(self.active_languages): the call reads the list made when it started.
PassedList(copied, live) == copied

InFlight == track.pc \in {"translating", "publishing"}

\* Languages that joined the active set while a segment is in translation.
Noted(added) == IF InFlight THEN [seg EXCEPT !.added = @ \cup added] ELSE seg

Languages(published) == { published[i].language : i \in DOMAIN published }

\* A loop over the translations placed before the transcription.
ContinueTranslationsFirst(tr, code) ==
    IF tr.remaining # {}
    THEN { [tr EXCEPT !.pc = "publishing", !.remaining = @ \ {l},
                      !.current = [kind |-> "translation", language |-> l,
                                   text |-> tr.translations[l]]] : l \in tr.remaining }
    ELSE IF tr.transcription_due
    THEN { [tr EXCEPT !.pc = "publishing", !.transcription_due = FALSE,
                      !.current = [kind |-> "transcription", language |-> code,
                                   text |-> tr.transcription]] }
    ELSE {IdleTrack}

\* translate_and_publish from one publish to the next await, or to its end;
\* dict order is not kept by the model, the loop takes the languages in any order.
Continue(tr, code) ==
    IF tr.transcription_due
    THEN { [tr EXCEPT !.pc = "publishing", !.transcription_due = FALSE,
                      !.current = [kind |-> "transcription", language |-> code,
                                   text |-> tr.transcription]] }
    ELSE IF tr.remaining # {}
    THEN { [tr EXCEPT !.pc = "publishing", !.remaining = @ \ {l},
                      !.current = [kind |-> "translation", language |-> l,
                                   text |-> tr.translations[l]]] : l \in tr.remaining }
    ELSE {IdleTrack}

\* translate_and_publish once process_audio_segment has returned or raised;
\* translations that are no dict end the call in its except clause.
Returns(tr, result, code) ==
    IF result.exc # "none" THEN {IdleTrack}
    ELSE LET items == IF result.translations.k = "obj" THEN result.translations.m ELSE NoMap IN
         Continue([tr EXCEPT !.transcription_due = Truthy(result.transcription),
                             !.transcription = result.transcription,
                             !.translations = items,
                             !.remaining = DOMAIN items], code)

InitProcessor == InitParseVars /\ InitEngineVars /\ InitProcessorVars

\* translate_and_publish up to the await of process_audio_segment.
TranslateAndPublish(wav_bytes, target_languages) ==
    LET engine == Enter(stats, conversation_history, wav_bytes, target_languages,
                        source_language) IN
    /\ Install(engine)
    /\ calls_made' = calls_made + 1
    /\ before' = [stats |-> stats, conversation_history |-> conversation_history]
    /\ prev' = [added |-> seg.added, languages |-> Languages(seg.published)]
    /\ seg' = [NoSegment EXCEPT !.active_at_start = active_languages]
    /\ IF engine.call.pc = "returned"
       THEN track' \in Returns([IdleTrack EXCEPT !.target_languages = target_languages],
                               engine.call.result, source_language_code)
       ELSE track' = [IdleTrack EXCEPT !.pc = "translating",
                                       !.target_languages = target_languages]

\* A segment cut from every end of speech.
EmitsOnEveryEnd(type, frames) == type = "END_OF_SPEECH"

\* A segment is cut from the event.
EmitsSegment(type, frames) == type = "END_OF_SPEECH" /\ frames > 0

\* A loop that hands the segment to a task of its own and goes on to the next
\* event while the segment is translated and published.
HandleVadEventDetached(type, frames, raises) ==
    /\ track.pc \in {"waiting", "translating", "publishing"}
    /\ IF EmitsSegment(type, frames)
       THEN /\ segment_count < MaxSegments
            /\ segment_count' = segment_count + 1
            /\ total_segments_processed' = total_segments_processed + 1
            /\ IF raises
               THEN /\ track' = [IdleTrack EXCEPT !.pc = "failed"]
                    /\ UNCHANGED <<engineVars, seg, prev>>
               ELSE IF ConvertToWavBytes(frames) # 0 /\ HasTranslator /\ active_languages # {}
               THEN TranslateAndPublish(ConvertToWavBytes(frames), active_languages)
               ELSE UNCHANGED <<engineVars, track, seg, prev>>
       ELSE UNCHANGED <<segment_count, total_segments_processed, engineVars, track,
                        seg, prev>>
    /\ UNCHANGED <<parseVars, active_languages, source_language, source_language_code>>

\* One turn of the loop of process_vad_events.  The frames of an event may
\* make the duration or the sample-rate lines raise: the except clause around
\* the whole loop logs it and the loop is over.
HandleVadEvent(type, frames, raises) ==
    /\ track.pc = "waiting"
    /\ IF EmitsSegment(type, frames)
       THEN /\ segment_count < MaxSegments
            /\ segment_count' = segment_count + 1
            /\ total_segments_processed' = total_segments_processed + 1
            /\ IF raises
               THEN /\ track' = [IdleTrack EXCEPT !.pc = "failed"]
                    /\ UNCHANGED <<engineVars, seg, prev>>
               ELSE IF ConvertToWavBytes(frames) # 0 /\ HasTranslator /\ active_languages # {}
               THEN TranslateAndPublish(ConvertToWavBytes(frames), active_languages)
               ELSE UNCHANGED <<engineVars, track, seg, prev>>
       ELSE UNCHANGED <<segment_count, total_segments_processed, engineVars, track,
                        seg, prev>>
    /\ UNCHANGED <<parseVars, active_languages, source_language, source_language_code>>

\* Events whose frames are well formed.
VadEvent ==
    /\ \E type \in VadEventTypes, frames \in FrameCounts : HandleVadEvent(type, frames, FALSE)
    /\ UNCHANGED <<taskVars, sessionVars, unitVars>>

\* The end of the await of generate_content inside the call of the segment.
TranslationResponds ==
    /\ track.pc = "translating"
    /\ call.pc = "awaiting"
    /\ \E outcome \in SessionOutcomes(call.request) :
        LET frame == [call EXCEPT !.target_languages =
                                      PassedList(track.target_languages, active_languages)]
            engine == Resume(stats, conversation_history, frame, outcome) IN
        /\ Install(engine)
        /\ IF engine.call.pc = "returned"
           THEN track' \in Returns(track, engine.call.result, source_language_code)
           ELSE track' = track
    /\ UNCHANGED <<calls_made, before, parseVars, active_languages, source_language,
                   source_language_code, segment_count, total_segments_processed,
                   seg, prev, taskVars, sessionVars, unitVars>>

\* A send that raised leaving publish_transcription.
AfterPublishRaising(tr, code, ok) == IF ok THEN Continue(tr, code) ELSE {IdleTrack}

\* publish_transcription logs what the send raised and returns.
AfterPublish(tr, code, ok) == Continue(tr, code)

\* The end of the await inside publish_transcription: the caption was sent, or
\* the send raised.
PublishReturns(ok) ==
    /\ track.pc = "publishing"
    /\ seg' = [seg EXCEPT !.published =
                  Append(@, [kind |-> track.current.kind, language |-> track.current.language])]
    /\ track' \in AfterPublish(track, source_language_code, ok)
    /\ UNCHANGED <<parseVars, engineVars, active_languages, source_language,
                   source_language_code, segment_count, total_segments_processed, prev>>

PublishCompletes ==
    /\ \E ok \in BOOLEAN : PublishReturns(ok)
    /\ UNCHANGED <<taskVars, sessionVars, unitVars>>

\* entrypoint.on_attributes_changed
HandleAttributesChanged(changed) ==
    /\ IF changed.speaking_language # Absent
       THEN /\ source_language_code' = changed.speaking_language
            /\ source_language' = GetLanguageName(changed.speaking_language)
       ELSE UNCHANGED <<source_language, source_language_code>>
    /\ active_languages' =
          IF changed.captions_language # Absent
          THEN add_language(active_languages, changed.captions_language)
          ELSE active_languages
    /\ seg' = Noted(active_languages' \ active_languages)
    /\ UNCHANGED <<parseVars, engineVars, segment_count, total_segments_processed,
                   track, prev, taskVars>>

OnAttributesChanged ==
    /\ \E changed \in ChangedAttributes : HandleAttributesChanged(changed)
    /\ UNCHANGED <<sessionVars, unitVars>>

\* AudioProcessor.remove_language called on the processor.
RemoveLanguage ==
    /\ \E language_code \in CaptionLanguages :
        active_languages' = remove_language(active_languages, language_code)
    /\ UNCHANGED <<parseVars, engineVars, source_language, source_language_code,
                   segment_count, total_segments_processed, track, seg, prev, taskVars, sessionVars, unitVars>>

NextProcessor ==
    \/ VadEvent
    \/ TranslationResponds
    \/ PublishCompletes
    \/ OnAttributesChanged
    \/ RemoveLanguage

SpecProcessor == InitProcessor /\ [][NextProcessor]_vars

\* ---------------------------------------------------------------------------
\* One process_track task with its two duties, from the creation of the task to
\* its completion: push_audio_frames forwards the frames of the source to the
\* classifier and closes it in its finally clause, process_vad_events drains the
\* events of the classifier.
\* ---------------------------------------------------------------------------

Over == {"drained", "failed", "cancelled"}

\* process_track is past its gather.
Completed == push = "closed" /\ track.pc \in Over

\* What an event does to the speech the classifier has open.
SpeechOpen(open, type) ==
    IF type = "START_OF_SPEECH" THEN TRUE
    ELSE IF type = "END_OF_SPEECH" THEN FALSE
    ELSE open

\* One event taken from the classifier by the loop of process_vad_events,
\* handled to its first await or to the exception it raises.
VadEventSeen ==
    /\ \E type \in VadEventTypes, frames \in FrameCounts, raises \in BOOLEAN :
        /\ HandleVadEvent(type, frames, raises)
        /\ watch' = [watch EXCEPT
                        !.event = [type |-> type, frames |-> frames],
                        !.ends = IF type = "END_OF_SPEECH" /\ frames > 0 THEN @ + 1 ELSE @,
                        !.speech_open = SpeechOpen(@, type)]
    /\ UNCHANGED <<push, sessionVars, unitVars>>

\* The model service answers the request of the segment.
TranslationArrives == ~watch.hung /\ TranslationResponds

\* The model service never answers the request in flight.
ServiceHangs ==
    /\ track.pc = "translating"
    /\ ~watch.hung
    /\ watch' = [watch EXCEPT !.hung = TRUE]
    /\ UNCHANGED <<parseVars, engineVars, active_languages, source_language,
                   source_language_code, segment_count, total_segments_processed,
                   track, seg, prev, push, sessionVars, unitVars>>

\* The end of the await inside publish_transcription, with what became of the
\* send.
PublishSettles ==
    /\ \E ok \in BOOLEAN :
        /\ PublishReturns(ok)
        /\ watch' = [watch EXCEPT !.failed = IF ok THEN @
                                             ELSE @ \cup {track.current.language}]
    /\ UNCHANGED <<push, sessionVars, unitVars>>

\* The frame source ends or raises: push_audio_frames leaves its loop, and its
\* finally clause closes the classifier.
FrameSourceEnds ==
    /\ push = "pushing"
    /\ push' = "closed"
    /\ UNCHANGED <<parseVars, engineVars, active_languages, source_language,
                   source_language_code, segment_count, total_segments_processed,
                   track, seg, prev, watch, sessionVars, unitVars>>

\* The classifier is closed and has no event left: the loop of
\* process_vad_events ends.
DrainEnds ==
    /\ push = "closed"
    /\ track.pc = "waiting"
    /\ track' = [IdleTrack EXCEPT !.pc = "drained"]
    /\ UNCHANGED <<parseVars, engineVars, active_languages, source_language,
                   source_language_code, segment_count, total_segments_processed,
                   seg, prev, taskVars, sessionVars, unitVars>>

\* The task of process_track is cancelled: gather cancels both duties, the
\* finally clause of push_audio_frames closes the classifier, the await of
\* process_vad_events raises CancelledError past every except Exception, and
\* process_track catches it.
TrackCancelled ==
    /\ ~Completed
    /\ push' = "closed"
    /\ track' = IF track.pc \in Over THEN track ELSE [IdleTrack EXCEPT !.pc = "cancelled"]
    /\ UNCHANGED <<parseVars, engineVars, active_languages, source_language,
                   source_language_code, segment_count, total_segments_processed,
                   seg, prev, watch, sessionVars, unitVars>>

NextTrack ==
    \/ VadEventSeen
    \/ TranslationArrives
    \/ ServiceHangs
    \/ PublishSettles
    \/ OnAttributesChanged
    \/ FrameSourceEnds
    \/ DrainEnds
    \/ TrackCancelled

SpecTrack == InitProcessor /\ [][NextTrack]_vars

\* A request is with the model service, and the service will answer it.
Answerable == track.pc = "translating" /\ call.pc = "awaiting" /\ ~watch.hung

\* The event loop runs every coroutine that can go on: the loop over a closed
\* and empty classifier ends, a request the service answers is resumed, a send
\* that settled is resumed.  Nothing obliges the frame source to end, the
\* classifier to deliver, or a hung request to return.  The second conjunct
\* is weak fairness of TranslationArrives, with Answerable written for
\* ENABLED <<TranslationArrives>>_vars.
FairTrack ==
    /\ WF_vars(DrainEnds)
    /\ ([]<>~Answerable \/ []<><<TranslationArrives>>_vars)
    /\ WF_vars(PublishSettles)

SpecTrackLive == InitProcessor /\ [][NextTrack]_vars /\ FairTrack

\* ---------------------------------------------------------------------------
\* The room events of agent.py, from the end of entrypoint on: every handler is
\* registered, the AudioProcessor of the room exists, and each teacher track
\* subscribed gets a process_track task of that one processor.
\* ---------------------------------------------------------------------------

MaxTasks == 2

\* An attribute that was deleted arrives as the empty string.
Cleared == ""

\* get_participant_metadata(participant).get('role').
Role(p) == IF p = "teacher" THEN "teacher" ELSE IF p = "student" THEN "student" ELSE "unknown"

\* 'teacher' in name or 'speaker' in name, for the lower-cased display name.
NameMatches(p) == p = "guest"

is_teacher(p) ==
    \/ Role(p) = "teacher"
    \/ room[p].speaking_language \notin {Absent, Cleared}
    \/ NameMatches(p)

TrackKinds == {"KIND_AUDIO", "KIND_VIDEO"}

\* The changed_attributes a participant of the room can cause by setting a
\* speaking or a captions language.
RoomChanges == ChangedAttributes

\* The attributes of a participant after a change.
Changed(attributes, changed) ==
    [attributes EXCEPT
        !.speaking_language = IF changed.speaking_language # Absent
                              THEN changed.speaking_language ELSE @,
        !.captions_language = IF changed.captions_language # Absent
                              THEN changed.captions_language ELSE @]

\* What on_track_subscribed does to the tasks of the room: nothing but the kind
\* of the track and is_teacher decide.
Subscribed(running, p, kind) ==
    IF kind = "KIND_AUDIO" /\ is_teacher(p) THEN Append(running, p) ELSE running

\* participant_connected: the handler logs.
OnParticipantConnected ==
    /\ \E p \in Participants :
        /\ ~room[p].connected
        /\ room' = [room EXCEPT ![p] = [NotInRoom EXCEPT !.connected = TRUE]]
    /\ UNCHANGED <<parseVars, engineVars, active_languages, source_language,
                   source_language_code, segment_count, total_segments_processed,
                   track, seg, prev, taskVars, tasks, unitVars>>

\* participant_disconnected: the handler logs.
OnParticipantDisconnected ==
    /\ \E p \in Participants :
        /\ room[p].connected
        /\ room' = [room EXCEPT ![p] = NotInRoom]
    /\ UNCHANGED <<parseVars, engineVars, active_languages, source_language,
                   source_language_code, segment_count, total_segments_processed,
                   track, seg, prev, taskVars, tasks, unitVars>>

\* track_subscribed for a track of a participant in the room.
OnTrackSubscribed ==
    /\ \E p \in Participants, kind \in TrackKinds :
        /\ room[p].connected
        /\ Len(Subscribed(tasks, p, kind)) <= MaxTasks
        /\ tasks' = Subscribed(tasks, p, kind)
    /\ UNCHANGED <<parseVars, engineVars, active_languages, source_language,
                   source_language_code, segment_count, total_segments_processed,
                   track, seg, prev, taskVars, room, unitVars>>

\* participant_attributes_changed for a participant in the room.
OnRoomAttributesChanged ==
    /\ \E p \in Participants, changed \in RoomChanges :
        /\ room[p].connected
        /\ room' = [room EXCEPT ![p] = Changed(@, changed)]
        /\ HandleAttributesChanged(changed)
    /\ UNCHANGED <<tasks, unitVars>>

\* The sequence without its i-th element.
Without(seq, i) == SubSeq(seq, 1, i - 1) \o SubSeq(seq, i + 1, Len(seq))

\* The audio stream of a task ends and its process_track completes.
TaskCompletes(i) ==
    /\ i \in DOMAIN tasks
    /\ tasks' = Without(tasks, i)
    /\ UNCHANGED <<parseVars, engineVars, active_languages, source_language,
                   source_language_code, segment_count, total_segments_processed,
                   track, seg, prev, taskVars, room, unitVars>>

\* The audio stream of a participant who is still in the room ends.
StreamEnds == \E i \in DOMAIN tasks : room[tasks[i]].connected /\ TaskCompletes(i)

\* The audio stream of a participant who left the room ends.
StreamEndsAfterLeave == \E i \in DOMAIN tasks : ~room[tasks[i]].connected /\ TaskCompletes(i)

NextAgent ==
    \/ OnParticipantConnected
    \/ OnParticipantDisconnected
    \/ OnTrackSubscribed
    \/ OnRoomAttributesChanged
    \/ StreamEnds
    \/ StreamEndsAfterLeave

SpecAgent == InitProcessor /\ [][NextAgent]_vars

\* The tracks of a participant who left are closed by the room, and the task
\* reading one of them sees its stream end.
SpecAgentLive == SpecAgent /\ WF_vars(StreamEndsAfterLeave)

\* ---------------------------------------------------------------------------
\* Two process_track tasks share the GeminiTranslator of the worker: each call
\* of process_audio_segment has its own frame (attempt, prompt, response),
\* the stats and the conversation history are the translator's.
\* ---------------------------------------------------------------------------
PairTexts == {DocFull, DocNullTranslations}

PairTargets == {{}, {"es"}}

PairCallStarts ==
    /\ \E i \in Callers, wav_bytes \in WavSizes, target_languages \in PairTargets,
          language \in SourceLanguages :
        /\ pair.frames[i].pc = "idle"
        /\ LET entered == Enter(stats, conversation_history, wav_bytes, target_languages, language) IN
            /\ stats' = entered.stats
            /\ conversation_history' = entered.conversation_history
            /\ pair' = [pair EXCEPT !.frames[i] = entered.call,
                                    !.entry[i] = [stats |-> stats,
                                                  conversation_history |-> conversation_history]]
    /\ UNCHANGED <<call, calls_made, before, parseVars, processorVars,
                   meter, boot, trans, transcriber, stt, joined, classified, chat>>

PairModelResponds ==
    /\ \E i \in Callers, outcome \in Outcomes(PairTexts) :
        /\ pair.frames[i].pc = "awaiting"
        /\ LET resumed == Resume(stats, conversation_history, pair.frames[i], outcome) IN
            /\ stats' = resumed.stats
            /\ conversation_history' = resumed.conversation_history
            /\ pair' = [pair EXCEPT !.frames[i] = resumed.call,
                                    !.given[i] = Append(@, outcome)]
    /\ UNCHANGED <<call, calls_made, before, parseVars, processorVars,
                   meter, boot, trans, transcriber, stt, joined, classified, chat>>

NextPair == PairCallStarts \/ PairModelResponds

SpecPair == InitProcessor /\ [][NextPair]_vars

\* ---------------------------------------------------------------------------
\* is_teacher and get_participant_metadata of agent.py.  A participant is its
\* metadata (None, or a text in the tokens of the JSON parser above), its
\* speaking_language attribute and its display name (None, or the pieces of
\* the text).
\* ---------------------------------------------------------------------------
NoText == [present |-> FALSE, text |-> <<>>]
Text(t) == [present |-> TRUE, text |-> t]

MetaTeacher == Braced(KV("role", Q("teacher")))
MetaStudent == Braced(KV("role", Q("student")))
MetaCapital == Braced(KV("role", Q("Teacher")))
MetaNoRole == Braced(KV("room", Q("teacher")))
MetaTruncated == <<LB, QT, "role", QT, CL>>
MetaList == <<LK>> \o Q("teacher") \o <<RK>>
MetaString == Q("teacher")
MetaNull == <<"null">>

Metadatas ==
    {NoText} \cup { Text(t) : t \in {<<>>, MetaTeacher, MetaStudent, MetaCapital, MetaNoRole,
                                     MetaTruncated, MetaList, MetaString, MetaNull} }

\* The pieces display names are made of, and str.lower of each.
LowerPiece ==
    [ piece \in {"Teacher", "TEACHER", "teacher", "SPEAKER", "Guest", "Head", "Ann", "bob", "s", " "} |->
        CASE piece \in {"Teacher", "TEACHER", "teacher"} -> "teacher"
          [] piece = "SPEAKER" -> "speaker"
          [] piece = "Guest" -> "guest"
          [] piece = "Head" -> "head"
          [] piece = "Ann" -> "ann"
          [] OTHER -> piece ]

DisplayNames ==
    {NoText} \cup { Text(t) : t \in {<<>>, <<"Teacher", " ", "Ann">>, <<"Guest", " ", "SPEAKER">>,
                                     <<"Head", "TEACHER", "s">>, <<"bob">>} }

SpeakingAttributes == {Absent, Cleared, "en"}

ParticipantsSeen ==
    [metadata : Metadatas, speaking_language : SpeakingAttributes, name : DisplayNames]

\* participant.name.lower() if participant.name else ''
LowerName(name) ==
    IF name.present /\ name.text # <<>>
    THEN [i \in DOMAIN name.text |-> LowerPiece[name.text[i]]]
    ELSE <<>>

\* word in name, for a word that is one piece
InName(word, name) == \E i \in DOMAIN name : name[i] = word

\* json.loads of the metadata when there is any; {} when there is none or
\* when json.loads raises.  A text that loads to a list, a string or null is
\* returned as loaded.
get_participant_metadata(participant) ==
    IF participant.metadata.present /\ participant.metadata.text # <<>>
    THEN LET loaded == JsonLoads(participant.metadata.text) IN
         IF loaded.ok THEN loaded.v ELSE JObj(NoMap)
    ELSE JObj(NoMap)

\* The outcome of is_teacher: metadata.get raises AttributeError on a value
\* that is no dict.
IsTeacher(participant) ==
    LET metadata == get_participant_metadata(participant)
        role == Get(metadata, "role", JNull)
        name == LowerName(participant.name)
    IN  IF metadata.k # "obj"
        THEN [pc |-> "raised", value |-> FALSE]
        ELSE IF role.k = "str" /\ role.s = "teacher"
        THEN [pc |-> "returned", value |-> TRUE]
        ELSE IF participant.speaking_language \notin {Absent, Cleared}
        THEN [pc |-> "returned", value |-> TRUE]
        ELSE IF InName("teacher", name) \/ InName("speaker", name)
        THEN [pc |-> "returned", value |-> TRUE]
        ELSE [pc |-> "returned", value |-> FALSE]

IsTeacherCalled ==
    /\ \E participant \in ParticipantsSeen :
        classified' = [pc |-> IsTeacher(participant).pc, value |-> IsTeacher(participant).value,
                       participant |-> participant]
    /\ UNCHANGED <<parseVars, engineVars, processorVars, meter, boot, trans, transcriber, stt, joined, pair, chat>>

NextClassify == IsTeacherCalled

SpecClassify == InitProcessor /\ [][NextClassify]_vars

\* ---------------------------------------------------------------------------
\* entrypoint of agent.py from ctx.connect on: the room may fill and tracks
\* may be subscribed before the handlers are registered; the events of that
\* time reach no handler.  joined.subscribed holds the participants whose
\* audio track the agent is subscribed to.
\* ---------------------------------------------------------------------------

\* The attribute events of this view: the speaking language is set, or a
\* captions language.
JoinChanges ==
    { [speaking_language |-> "en", captions_language |-> Absent],
      [speaking_language |-> Absent, captions_language |-> "es"] }

\* What happens in the room while no handler is registered.
BeforeHandlers ==
    /\ ~joined.registered
    /\ \E p \in Participants :
        \/ /\ ~room[p].connected
           /\ room' = [room EXCEPT ![p] = [NotInRoom EXCEPT !.connected = TRUE]]
           /\ UNCHANGED joined
        \/ /\ room[p].connected
           /\ p \notin joined.subscribed
           /\ joined' = [joined EXCEPT !.subscribed = @ \cup {p}]
           /\ UNCHANGED room
        \/ /\ room[p].connected
           /\ \E changed \in JoinChanges : room' = [room EXCEPT ![p] = Changed(@, changed)]
           /\ UNCHANGED joined
    /\ UNCHANGED <<parseVars, engineVars, active_languages, source_language,
                   source_language_code, segment_count, total_segments_processed,
                   track, seg, prev, taskVars, tasks, meter, boot, trans, transcriber, stt, classified, pair, chat>>

\* entrypoint reaches its decorators: the handlers are registered, the
\* participants already in the room are logged.
HandlersRegistered ==
    /\ ~joined.registered
    /\ joined' = [joined EXCEPT !.registered = TRUE]
    /\ UNCHANGED <<parseVars, engineVars, processorVars, meter, boot, trans, transcriber, stt, classified, pair, chat>>

\* participant_connected and participant_disconnected with the handlers in
\* place: both log; the tracks of a participant who left are unsubscribed.
ParticipantComesOrGoes ==
    /\ joined.registered
    /\ \E p \in Participants :
        IF room[p].connected
        THEN /\ room' = [room EXCEPT ![p] = NotInRoom]
             /\ joined' = [joined EXCEPT !.subscribed = @ \ {p}]
        ELSE /\ room' = [room EXCEPT ![p] = [NotInRoom EXCEPT !.connected = TRUE]]
             /\ UNCHANGED joined
    /\ UNCHANGED <<parseVars, engineVars, active_languages, source_language,
                   source_language_code, segment_count, total_segments_processed,
                   track, seg, prev, taskVars, tasks, meter, boot, trans, transcriber, stt, classified, pair, chat>>

\* track_subscribed with the handler in place.
TrackSubscribed ==
    /\ joined.registered
    /\ \E p \in Participants, kind \in TrackKinds :
        /\ room[p].connected
        /\ kind = "KIND_AUDIO" => p \notin joined.subscribed
        /\ Len(Subscribed(tasks, p, kind)) <= MaxTasks
        /\ tasks' = Subscribed(tasks, p, kind)
        /\ joined' = IF kind = "KIND_AUDIO" THEN [joined EXCEPT !.subscribed = @ \cup {p}]
                     ELSE joined
    /\ UNCHANGED <<parseVars, engineVars, active_languages, source_language,
                   source_language_code, segment_count, total_segments_processed,
                   track, seg, prev, taskVars, room, meter, boot, trans, transcriber, stt, classified, pair, chat>>

\* participant_attributes_changed with the handler in place.
AttributesChanged ==
    /\ joined.registered
    /\ \E p \in Participants, changed \in JoinChanges :
        /\ room[p].connected
        /\ room' = [room EXCEPT ![p] = Changed(@, changed)]
        /\ HandleAttributesChanged(changed)
    /\ UNCHANGED <<tasks, unitVars>>

NextJoin ==
    \/ BeforeHandlers
    \/ HandlersRegistered
    \/ ParticipantComesOrGoes
    \/ TrackSubscribed
    \/ AttributesChanged

SpecJoin == InitProcessor /\ [][NextJoin]_vars

\* entrypoint is not suspended between ctx.connect and its decorators for ever.
SpecJoinLive == SpecJoin /\ WF_vars(HandlersRegistered)

\* ---------------------------------------------------------------------------
\* The processor under a teacher who changes the speaking language: the
\* attribute events carry one of two speaking languages and at most one
\* captions language.
\* ---------------------------------------------------------------------------

TeacherLanguages == {"en", "es"}

SourceChanges ==
    { [speaking_language |-> s, captions_language |-> c] :
        s \in TeacherLanguages \cup {Absent}, c \in {"ar", Absent} }

OnSourceChanged ==
    /\ \E changed \in SourceChanges : HandleAttributesChanged(changed)
    /\ UNCHANGED <<sessionVars, unitVars>>

NextSource == VadEvent \/ TranslationResponds \/ PublishCompletes \/ OnSourceChanged

SpecSource == InitProcessor /\ [][NextSource]_vars

\* ---------------------------------------------------------------------------
\* The duration process_vad_events computes for the frames of one
\* end-of-speech event, as a function of the frames.
\* ---------------------------------------------------------------------------

MaxFrames == 2

\* The int16 samples one frame may hold.
SampleCounts == {160, 320, 8000, 16000}

SampleRates == {8000, 16000}

DefaultSampleRate == 16000

\* The size in bytes of one item of frame.data: a buffer of bytes, as the
\* comment in convert_to_wav_bytes has it, or the view of 16-bit integers
\* that rtc.AudioFrame.data returns.
ItemSizes == {1, 2}

\* The frames an event may carry: mono 16-bit PCM, one buffer type and one
\* rate for all of them; a frame may lack the sample_rate attribute.
FrameLists ==
    UNION { [1..n -> { [samples |-> c, has_rate |-> h, sample_rate |-> r, itemsize |-> z] :
                           c \in SampleCounts }] :
              n \in 1..MaxFrames, h \in BOOLEAN, r \in SampleRates, z \in ItemSizes }

\* len(frame.data)
DataLen(frame) == (2 * frame.samples) \div frame.itemsize

RECURSIVE SumHalfLens(_)
\* sum(len(frame.data) // 2 for frame in frames)
SumHalfLens(frames) ==
    IF frames = <<>> THEN 0 ELSE DataLen(Head(frames)) \div 2 + SumHalfLens(Tail(frames))

\* frames[0].sample_rate if hasattr(frames[0], 'sample_rate') else 16000
SampleRateOf(frames) ==
    IF frames[1].has_rate THEN frames[1].sample_rate ELSE DefaultSampleRate

\* Lines 99 to 103 for the frames of one event; the duration is total_samples
\* over sample_rate.
MeasureDuration ==
    /\ \E frames \in FrameLists :
        meter' = [pc |-> "done", frames |-> frames, sample_rate |-> SampleRateOf(frames),
                  total_samples |-> SumHalfLens(frames)]
    /\ UNCHANGED <<parseVars, engineVars, processorVars, boot, trans, transcriber, stt, joined, classified, pair, chat>>

NextDuration == MeasureDuration

SpecDuration == InitProcessor /\ [][NextDuration]_vars

\* ---------------------------------------------------------------------------
\* The worker process of the voice segmenter: config.py is imported, prewarm
\* runs once, and jobs are accepted after it.
\* ---------------------------------------------------------------------------

\* What the environment may hold under a name: nothing, the empty string, a
\* value.
EnvValues == {Absent, "", "value"}

\* os.getenv(name, default)
getenv(environ, name, default) ==
    IF environ[name] = Absent THEN default ELSE environ[name]

\* The class attributes of Config that validate and prewarm read.
Config(environ) == [n \in ConfigNames |-> getenv(environ, n, "")]

\* if not cls.<name>: errors.append(message)
Check(cls, name, message) == IF cls[name] = "" THEN <<message>> ELSE <<>>

\* validate with the Vertex AI project optional, as its comment has it.
ValidateLiveKitOnly(cls) ==
    Check(cls, "LIVEKIT_URL", "LIVEKIT_URL not set")
    \o Check(cls, "LIVEKIT_API_KEY", "LIVEKIT_API_KEY not set")
    \o Check(cls, "LIVEKIT_API_SECRET", "LIVEKIT_API_SECRET not set")

\* Config.validate
validate(cls) ==
    Check(cls, "LIVEKIT_URL", "LIVEKIT_URL not set")
    \o Check(cls, "LIVEKIT_API_KEY", "LIVEKIT_API_KEY not set")
    \o Check(cls, "LIVEKIT_API_SECRET", "LIVEKIT_API_SECRET not set")
    \o Check(cls, "GOOGLE_CLOUD_PROJECT",
             "GOOGLE_CLOUD_PROJECT not set (translation will be disabled)")

\* import config: the class body reads the environment once.
LoadConfig ==
    /\ boot.pc = "unloaded"
    /\ \E environ \in [ConfigNames -> EnvValues] :
        boot' = [boot EXCEPT !.pc = "loaded", !.environ = environ, !.config = Config(environ)]
    /\ UNCHANGED <<parseVars, engineVars, processorVars, meter, trans, transcriber, stt, joined, classified, pair, chat>>

\* prewarm: the configuration check, the VAD model, the translator.
\* vad_loads: silero.VAD.load returns; client_made: GeminiTranslator(...) returns.
Prewarm(vad_loads, client_made) ==
    /\ boot.pc = "loaded"
    /\ LET errors == validate(boot.config) IN
        boot' =
            IF errors # <<>>
            THEN [boot EXCEPT !.pc = "aborted", !.errors = errors, !.raised = "ValueError"]
            ELSE IF ~vad_loads
            THEN [boot EXCEPT !.pc = "aborted", !.raised = "VadLoadError"]
            ELSE [boot EXCEPT !.pc = "prewarmed",
                              !.translator = boot.config.GEMINI_API_KEY # "" /\ client_made]
    /\ UNCHANGED <<parseVars, engineVars, processorVars, meter, trans, transcriber, stt, joined, classified, pair, chat>>

PrewarmRuns == \E vad_loads \in BOOLEAN, client_made \in BOOLEAN : Prewarm(vad_loads, client_made)

\* entrypoint is entered for a room: only a process whose prewarm returned
\* is given jobs.
JobStarts ==
    /\ boot.pc = "prewarmed"
    /\ boot' = [boot EXCEPT !.pc = "running"]
    /\ UNCHANGED <<parseVars, engineVars, processorVars, meter, trans, transcriber, stt, joined, classified, pair, chat>>

NextBoot == LoadConfig \/ PrewarmRuns \/ JobStarts

SpecBoot == InitProcessor /\ [][NextBoot]_vars

\* ---------------------------------------------------------------------------
\* Translator.translate of the translation agent (main.py, main_upgraded.py):
\* each call is a task of its own, suspended while the LLM streams.
\* ---------------------------------------------------------------------------

MaxTranslations == 3

CacheLimit == 1000

\* What the LLM may stream for a message.
Translations == {"Hola", "Ola"}

LanguageCode == "es"

\* len(self.translation_cache)
CacheSize(t) == t.fresh + Cardinality({m \in Messages : t.translation_cache[m] # Absent})

\* translate without its cache: nothing is stored.
StoredNever(t, message, translated_message) == t

\* Lines 176 to 178: the translation is stored while the cache is below its limit.
Stored(t, message, translated_message) ==
    IF CacheSize(t) < CacheLimit
    THEN [t EXCEPT !.translation_cache[message] = translated_message]
    ELSE t

\* The except branch without its inner try: a fallback publish that raises
\* leaves translate.
FallbackRaises(t, c, llm_failed, fallback_ok) ==
    [t EXCEPT !.error_count = @ + 1,
              !.last = [outcome |-> IF fallback_ok THEN "published" ELSE "nothing",
                        call |-> c, text |-> c.message, marker |-> TRUE,
                        language |-> LanguageCode, llm_failed |-> llm_failed,
                        raised |-> ~fallback_ok]]

\* The except branch, lines 204 to 227: the error is counted and the message
\* goes out with the error marker; a publish that raises is logged.
Fallback(t, c, llm_failed, fallback_ok) ==
    [t EXCEPT !.error_count = @ + 1,
              !.last = [outcome |-> IF fallback_ok THEN "published" ELSE "nothing",
                        call |-> c, text |-> c.message, marker |-> TRUE,
                        language |-> LanguageCode, llm_failed |-> llm_failed,
                        raised |-> FALSE]]

\* Lines 180 to 202: the success is recorded and the translated text published;
\* a publish that raises lands in the except branch.
Publish(t, c, translated_message, publish_ok, fallback_ok) ==
    LET counted == [t EXCEPT !.success_count = @ + 1, !.succeeded = @ \cup {c.message}] IN
    IF publish_ok
    THEN [counted EXCEPT !.last = [outcome |-> "published", call |-> c,
                                   text |-> translated_message, marker |-> FALSE,
                                   language |-> LanguageCode, llm_failed |-> FALSE,
                                   raised |-> FALSE]]
    ELSE Fallback(counted, c, FALSE, fallback_ok)

\* translate(message, track_sid) is called for a followed text: a cached text
\* is published at once, otherwise the LLM is asked and the task waits.
TranslateStarts(task, message, publish_ok, fallback_ok) ==
    /\ trans.task[task].pc = "idle"
    /\ trans.started < MaxTranslations
    /\ LET hit == trans.translation_cache[message] # Absent
           c == [message |-> message, hit |-> hit, repeat |-> message \in trans.succeeded,
                 kept |-> message \in trans.kept]
           go == [trans EXCEPT !.started = @ + 1]
       IN  trans' =
            IF hit
            THEN Publish([go EXCEPT !.cache_hits = @ + 1], c, go.translation_cache[message],
                         publish_ok, fallback_ok)
            ELSE [go EXCEPT !.llm_requests[message] = @ + 1,
                            !.task[task] = [pc |-> "streaming", call |-> c]]
    /\ UNCHANGED <<parseVars, engineVars, processorVars, meter, boot, transcriber, stt, joined, classified, pair, chat>>

\* The stream ends: the text is stored, counted and published.
LlmAnswers(task, translated_message, publish_ok, fallback_ok) ==
    /\ trans.task[task].pc = "streaming"
    /\ LET c == trans.task[task].call
           idle == [trans EXCEPT !.task[task] = NoTask,
                                 !.kept = IF CacheSize(trans) < CacheLimit
                                          THEN @ \cup {c.message} ELSE @]
       IN  trans' = Publish(Stored(idle, c.message, translated_message), c, translated_message,
                            publish_ok, fallback_ok)
    /\ UNCHANGED <<parseVars, engineVars, processorVars, meter, boot, transcriber, stt, joined, classified, pair, chat>>

\* self.llm.chat or the stream raises.
LlmFails(task, fallback_ok) ==
    /\ trans.task[task].pc = "streaming"
    /\ trans' = Fallback([trans EXCEPT !.task[task] = NoTask], trans.task[task].call, TRUE,
                         fallback_ok)
    /\ UNCHANGED <<parseVars, engineVars, processorVars, meter, boot, transcriber, stt, joined, classified, pair, chat>>

\* A whole call for a text that was not translated before and is not
\* translated again: it is answered, stored under its own key and published.
TranslateFresh ==
    /\ CacheSize(trans) < CacheLimit
    /\ trans' = [trans EXCEPT !.fresh = @ + 1, !.success_count = @ + 1]
    /\ UNCHANGED <<parseVars, engineVars, processorVars, meter, boot, transcriber, stt, joined, classified, pair, chat>>

TranslateCalled ==
    \E task \in TaskNames, message \in Messages, publish_ok \in BOOLEAN, fallback_ok \in BOOLEAN :
        TranslateStarts(task, message, publish_ok, fallback_ok)

LlmAnswered ==
    \E task \in TaskNames, translated_message \in Translations,
       publish_ok \in BOOLEAN, fallback_ok \in BOOLEAN :
        LlmAnswers(task, translated_message, publish_ok, fallback_ok)

LlmFailed == \E task \in TaskNames, fallback_ok \in BOOLEAN : LlmFails(task, fallback_ok)

NextTranslator == TranslateCalled \/ LlmAnswered \/ LlmFailed \/ TranslateFresh

SpecTranslator == InitProcessor /\ [][NextTranslator]_vars

\* ---------------------------------------------------------------------------
\* Translator.translate of main.py up to its LLM request, and the end of the
\* stream.
\* ---------------------------------------------------------------------------
MaxChats == 3

LanguageName == "Spanish"

\* self.system_prompt, built once in __init__ from language.name
system_prompt == [role |-> "system", content |-> <<"translator", LanguageName>>]

\* A context kept on the translator: the messages of the latest request.
KeptContext(t) == t.sent

\* llm.ChatContext()
ChatContext(t) == <<>>

\* ChatContext.add_message
AddMessage(ctx, role, content) == Append(ctx, [role |-> role, content |-> content])

\* translate called: a cache hit makes no request; otherwise the context is
\* made and llm.chat is called with it.
ChatRequested ==
    /\ chat.calls < MaxChats
    /\ \E message \in ChatMessages :
        IF message \in chat.translation_cache
        THEN chat' = [chat EXCEPT !.cache_hits = @ + 1, !.calls = @ + 1]
        ELSE LET temp_ctx == AddMessage(Append(ChatContext(chat), system_prompt), "user", message) IN
             chat' = [chat EXCEPT !.calls = @ + 1,
                                  !.sent = temp_ctx,
                                  !.message = message,
                                  !.requests = @ + 1,
                                  !.earlier = IF chat.requests = 0 THEN @ ELSE Append(@, chat.message),
                                  !.streaming[message] = @ + 1]
    /\ UNCHANGED <<parseVars, engineVars, processorVars, meter, boot, trans, transcriber, stt,
                   joined, classified, pair>>

\* The stream of a request ends: with the text, which is stored in the cache,
\* or with an exception.
ChatAnswered ==
    /\ \E message \in ChatMessages, answered \in BOOLEAN :
        /\ chat.streaming[message] > 0
        /\ chat' = [chat EXCEPT !.streaming[message] = @ - 1,
                                !.translation_cache = IF answered /\ Cardinality(@) < CacheLimit
                                                      THEN @ \cup {message} ELSE @]
    /\ UNCHANGED <<parseVars, engineVars, processorVars, meter, boot, trans, transcriber, stt,
                   joined, classified, pair>>

NextChat == ChatRequested \/ ChatAnswered

SpecChat == InitProcessor /\ [][NextChat]_vars

\* ---------------------------------------------------------------------------
\* RealtimeTranscriber of main_upgraded.py: start runs as the task of the
\* teacher's track, stop is awaited by start's finally and by other tasks.
\* session stands for "self.session is not None", closes counts the calls
\* of close on the session object.
\* ---------------------------------------------------------------------------

MaxStreamErrors == 2

\* stop, up to its await: active is cleared, and close is called when the
\* session attribute is set.
StopBegins(t, caller) ==
    IF t.session
    THEN [t EXCEPT !.active = FALSE, !.closes = @ + 1, !.stop[caller] = "closing"]
    ELSE [t EXCEPT !.active = FALSE, !.stop[caller] = "done"]

\* start leaves its try block: the finally awaits stop.
StartEnds(t, reason) == StopBegins([t EXCEPT !.start = "stopping", !.ended_by = reason], "start")

\* start is called: active is set and the session is created, or its creation raises.
Start(session_made) ==
    /\ transcriber.start = "new"
    /\ transcriber' =
        IF session_made
        THEN [transcriber EXCEPT !.active = TRUE, !.session = TRUE, !.opened = TRUE,
                                 !.start = "streaming"]
        ELSE StartEnds([transcriber EXCEPT !.active = TRUE], "session creation failed")
    /\ UNCHANGED <<parseVars, engineVars, processorVars, meter, boot, trans, stt, joined, classified, pair, chat>>

\* The audio stream gives a frame: the loop breaks when active is cleared;
\* sending the frame raises when the session attribute is None or the API fails.
AudioEvent(send_ok) ==
    /\ transcriber.start = "streaming"
    /\ transcriber.error_count < MaxStreamErrors
    /\ transcriber' =
        IF ~transcriber.active
        THEN StartEnds(transcriber, "stopped")
        ELSE IF transcriber.session /\ send_ok
        THEN transcriber
        ELSE [transcriber EXCEPT !.error_count = @ + 1]
    /\ UNCHANGED <<parseVars, engineVars, processorVars, meter, boot, trans, stt, joined, classified, pair, chat>>

\* The audio stream ends, or iterating it raises.
AudioStreamOver(reason) ==
    /\ transcriber.start = "streaming"
    /\ transcriber' = StartEnds(transcriber, reason)
    /\ UNCHANGED <<parseVars, engineVars, processorVars, meter, boot, trans, stt, joined, classified, pair, chat>>

\* A task other than start calls stop on the transcriber it finds.
StopCalled(caller) ==
    /\ caller # "start"
    /\ transcriber.start # "new"
    /\ transcriber.stop[caller] = "idle"
    /\ transcriber' = StopBegins(transcriber, caller)
    /\ UNCHANGED <<parseVars, engineVars, processorVars, meter, boot, trans, stt, joined, classified, pair, chat>>

\* session.close() returns or raises: stop clears the session attribute and
\* returns; when it is the stop of start's finally, start returns.
CloseSettles(caller) ==
    /\ transcriber.stop[caller] = "closing"
    /\ transcriber' = [transcriber EXCEPT !.session = FALSE, !.stop[caller] = "done"]
    /\ UNCHANGED <<parseVars, engineVars, processorVars, meter, boot, trans, stt, joined, classified, pair, chat>>

StartReturned == transcriber.stop["start"] = "done"

StartCalled == \E session_made \in BOOLEAN : Start(session_made)

AudioArrives == \E send_ok \in BOOLEAN : AudioEvent(send_ok)

AudioStops == \E reason \in {"stream ended", "streaming raised"} : AudioStreamOver(reason)

StopRuns == \E caller \in StopCallers : StopCalled(caller)

CloseReturns == \E caller \in StopCallers : CloseSettles(caller)

NextTranscriber == StartCalled \/ AudioArrives \/ AudioStops \/ StopRuns \/ CloseReturns

SpecTranscriber == InitProcessor /\ [][NextTranscriber]_vars

\* ---------------------------------------------------------------------------
\* StreamingTranscriber of main.py inside the session of entrypoint: the task
\* of start pushes the frames of the track into the STT stream, the
\* forward_transcription task hands the final transcripts to the
\* translators, whose translate calls are tasks of their own.
\* ---------------------------------------------------------------------------

MaxPushed == 3

\* The translators of the session, one translate task each per transcript.
Translators == 2

\* The lines after the frame loop: forward_task.cancel() and stt_stream.aclose().
CleanUp(t) == [t EXCEPT !.forward_task = "cancelled", !.stt_stream = "closed"]

\* The finally clause of start: stop() clears active, and start is over.
StartLeaves(t, reason) == [t EXCEPT !.active = FALSE, !.start = "over", !.ended_by = reason]

\* start is called on a new transcriber: the STT stream is opened and the
\* forwarding task created, or opening the stream raises.
StreamingStarts(stream_made) ==
    /\ stt.session = "running"
    /\ stt.start = "new"
    /\ stt' =
        IF stream_made
        THEN [stt EXCEPT !.active = TRUE, !.start = "streaming", !.stt_stream = "open",
                         !.forward_task = "running"]
        ELSE StartLeaves(stt, "stream creation raised")
    /\ UNCHANGED <<parseVars, engineVars, processorVars, meter, boot, trans, transcriber, joined, classified, pair, chat>>

\* The track gives a frame: the loop breaks when active is cleared, otherwise
\* the frame is pushed; a push that raises leaves the try block.
FramePushed(push_ok) ==
    /\ stt.start = "streaming"
    /\ stt' =
        IF ~stt.active THEN StartLeaves(CleanUp(stt), "stopped")
        ELSE IF push_ok THEN [stt EXCEPT !.frames_processed = @ + 1]
        ELSE StartLeaves(stt, "frame loop raised")
    /\ stt.active /\ push_ok => stt.frames_processed < MaxPushed
    /\ UNCHANGED <<parseVars, engineVars, processorVars, meter, boot, trans, transcriber, joined, classified, pair, chat>>

\* The audio stream of the track ends, or iterating it raises.
FrameLoopOver(raises) ==
    /\ stt.start = "streaming"
    /\ stt' = IF raises THEN StartLeaves(stt, "frame loop raised")
              ELSE StartLeaves(CleanUp(stt), "stream ended")
    /\ UNCHANGED <<parseVars, engineVars, processorVars, meter, boot, trans, transcriber, joined, classified, pair, chat>>

\* forward_transcription takes a final transcript: handle_transcription
\* creates one translate task per translator and waits for them.
TranscriptForwarded ==
    /\ stt.forward_task = "running"
    /\ stt.stt_stream = "open"
    /\ stt.frames_processed > 0
    /\ stt.translating = 0
    /\ stt' = [stt EXCEPT !.translating = Translators]
    /\ UNCHANGED <<parseVars, engineVars, processorVars, meter, boot, trans, transcriber, joined, classified, pair, chat>>

\* A translate task returns.
TranslateTaskDone ==
    /\ stt.translating > 0
    /\ stt' = [stt EXCEPT !.translating = @ - 1]
    /\ UNCHANGED <<parseVars, engineVars, processorVars, meter, boot, trans, transcriber, joined, classified, pair, chat>>

\* participant_disconnected for the teacher: a task calls transcriber.stop().
TeacherDisconnected ==
    /\ stt.session = "running"
    /\ stt.start # "new"
    /\ stt.active
    /\ stt' = [stt EXCEPT !.active = FALSE]
    /\ UNCHANGED <<parseVars, engineVars, processorVars, meter, boot, trans, transcriber, joined, classified, pair, chat>>

\* The room is no longer connected: the finally clause of entrypoint stops
\* the transcriber and cancels what active_tasks holds, the task of start and
\* the translate tasks; the cancelled start leaves through its finally.
SessionEnds ==
    /\ stt.session = "running"
    /\ LET stopped == [stt EXCEPT !.session = "ended", !.active = FALSE,
                                  !.cancelled = stt.translating, !.translating = 0]
       IN  stt' = IF stt.start = "streaming" THEN StartLeaves(stopped, "cancelled") ELSE stopped
    /\ UNCHANGED <<parseVars, engineVars, processorVars, meter, boot, trans, transcriber, joined, classified, pair, chat>>

StreamingStarted == \E stream_made \in BOOLEAN : StreamingStarts(stream_made)

FrameArrives == \E push_ok \in BOOLEAN : FramePushed(push_ok)

FrameLoopEnds == \E raises \in BOOLEAN : FrameLoopOver(raises)

NextStreaming ==
    \/ StreamingStarted
    \/ FrameArrives
    \/ FrameLoopEnds
    \/ TranscriptForwarded
    \/ TranslateTaskDone
    \/ TeacherDisconnected
    \/ SessionEnds

SpecStreaming == InitProcessor /\ [][NextStreaming]_vars

(***************************************************************************)
(* Properties of process_audio_segment (SpecEngine)                        *)
(***************************************************************************)
Done == call.pc = "returned"

\* C1: process_audio_segment never raises: whatever the audio, the target
\* list and the outcomes of its attempts (a client exception of a retried
\* class or of any other class among them), the call returns a result with
\* a transcription and a translations entry.
C1_NeverRaises == Done => call.result.exc = "none"

\* A call whose first request raised an exception outside the retried classes.
C1_Witness == Done /\ call.observed = <<"RuntimeError">> /\ call.result.exc = "none"

\* C2: for non-empty audio and a non-empty target list T the key set of the
\* returned translations mapping is exactly T, whatever the model answered.
C2_ExactKeys ==
    (Done /\ call.wav_bytes # 0 /\ call.target_languages # {})
        => /\ call.result.exc = "none"
           /\ call.result.translations.k = "obj"
           /\ DOMAIN call.result.translations.m = call.target_languages

\* C4: one call issues at most 2 model-service requests, whatever the
\* outcomes of its attempts.
C4_AtMostTwoRequests == call.requests <= 2

\* A call that returned after its second request.
C4_Witness == Done /\ call.requests = 2

\* C5: when the safety filter blocks the first attempt and the second, the
\* transcription and every requested translation are the filtered-content
\* marker.
C5_BothBlocked ==
    (Done /\ call.observed = <<"safety", "safety">>)
        => /\ call.result.exc = "none"
           /\ call.result.transcription = JStr(MarkerFiltered)
           /\ call.result.translations = AllMarked(call.target_languages, MarkerFiltered)

\* Both attempts blocked, with two languages requested.
C5_Witness ==
    Done /\ call.observed = <<"safety", "safety">> /\ call.target_languages = {"es", "fr"}

\* C8: for non-empty audio the returned transcription is always a string,
\* never null and never absent.
C8_TranscriptionIsString ==
    (Done /\ call.wav_bytes # 0)
        => call.result.exc = "none" /\ call.result.transcription.k = "str"

\* C9: a call with empty audio returns the empty result, issues no request
\* and changes neither the counters nor the conversation history.
C9_EmptyAudio ==
    (Done /\ call.wav_bytes = 0)
        => /\ call.result = Returned(JStr(""), JObj(NoMap))
           /\ call.requests = 0
           /\ stats = before.stats
           /\ conversation_history = before.conversation_history

\* An empty-audio call made after a call that left counters and history behind.
C9_Witness ==
    /\ Done /\ call.wav_bytes = 0 /\ call.target_languages # {}
    /\ stats.total_requests = 1 /\ Len(conversation_history) = 2

(***************************************************************************)
(* Properties of _parse_response (SpecParse)                               *)
(***************************************************************************)
Parsed == parse_calls = 1

\* The response as json.loads reads it.
ModelJson == JsonLoads(CleanResponse(response_text))

\* The translations object of the response, empty when it has none.
ModelTranslations ==
    IF /\ ModelJson.ok
       /\ ModelJson.v.k = "obj"
       /\ "translations" \in DOMAIN ModelJson.v.m
       /\ ModelJson.v.m["translations"].k = "obj"
    THEN ModelJson.v.m["translations"].m
    ELSE NoMap

SuppliedNonEmpty(l) == l \in DOMAIN ModelTranslations /\ Truthy(ModelTranslations[l])

\* C3: when the parsed response omits a requested code or gives it an empty
\* value the result maps that code to an error marker; a code supplied
\* non-empty keeps the model's text for that code; no requested key is absent.
C3_MarkerPerOmission ==
    (Parsed /\ ModelJson.ok)
        => \A l \in expected_languages :
              /\ parse_out.translations.k = "obj"
              /\ l \in DOMAIN parse_out.translations.m
              /\ IF SuppliedNonEmpty(l)
                 THEN parse_out.translations.m[l] = ModelTranslations[l]
                 ELSE /\ parse_out.translations.m[l].k = "str"
                      /\ parse_out.translations.m[l].s \in ErrorMarkers

\* The value of the transcription field between its quotes: after the field
\* name and its colon, the first quoted text that starts before any comma
\* ends the field, up to its closing quote; the marker when the text holds
\* no such closed quoted value.
QuotedFieldValue(t) ==
    LET field == FindField(t)
        colon == SkipWs(t, field + 3)
        open == FindFrom(t, QT, colon + 1)
    IN  IF /\ field # 0
           /\ colon <= Len(t) /\ t[colon] = CL
           /\ open # 0
           /\ \A i \in (colon + 1)..(open - 1) : t[i] # CM
           /\ ClosingQuote(t, open) # 0
        THEN Concat(SubSeq(t, open + 1, ClosingQuote(t, open) - 1))
        ELSE MarkerUnavailable

\* C6: when the text cannot be parsed as JSON, _parse_response raises
\* nothing and returns the transcription from between the quotes of the
\* transcription field (the unavailable marker when there is no closed
\* quoted value) with an error marker for every requested language.
C6_FallbackExtraction ==
    (Parsed /\ ~ModelJson.ok)
        => /\ parse_out.exc = "none"
           /\ parse_out.transcription = JStr(QuotedFieldValue(response_text))
           /\ parse_out.translations = AllMarked(expected_languages, MarkerJsonError)

\* A JSON object cut short: a proper prefix of a document that is an object.
TruncatedObjects ==
    UNION { { SubSeq(d, 1, n) : n \in 1..(Len(d) - 1) } : d \in { x \in Documents : x[1] = LB } }

Unmatched(t) == Count(t, LB) - Count(t, RB)

\* The response of the scenario: two braces open, cut after a complete value.
TwoOpen == SubSeq(DocFull, 1, Len(DocFull) - 2)

\* C7: for a JSON object cut short with k >= 1 unmatched opening braces,
\* whether or not it holds closing braces, the text given to json.loads is
\* the response with exactly k closing braces appended; with two braces
\* unmatched the repaired text parses.
C7_BraceRepair ==
    (Parsed /\ response_text \in TruncatedObjects /\ Unmatched(response_text) >= 1)
        => /\ CleanResponse(response_text)
                = Strip(response_text) \o Repeat(RB, Unmatched(response_text))
           /\ (response_text = TwoOpen
                 => parse_out = Returned(JStr("Hello"),
                                         JObj(FillMissing(ModelTranslations, expected_languages))))

(***************************************************************************)
(* Properties of the processor (SpecProcessor)                             *)
(***************************************************************************)
\* Languages of the translation captions handed to the room for the segment.
TranslationsPublished ==
    { seg.published[i].language :
        i \in { j \in DOMAIN seg.published : seg.published[j].kind = "translation" } }

SegmentOver == track.pc = "waiting" /\ seg.active_at_start # {}

\* C10: the target languages of a segment's Engine call are a copy of the
\* active set taken when the call starts.  Whatever add_language and
\* remove_language do while the call is in flight, every request of the call
\* (the first and the retry) names exactly the languages active at its
\* start, every translation caption of the segment is in one of those
\* languages, and when the segment is over exactly those languages have been
\* published; a call that starts later, starting from the active set of its
\* own moment, carries a language added meanwhile.
C10_CopyOfActiveSet ==
    /\ InFlight =>
          /\ call.target_languages = seg.active_at_start
          /\ call.request.contents.prompt.target_languages = seg.active_at_start
          /\ call.request.response_schema = seg.active_at_start
          /\ TranslationsPublished \subseteq seg.active_at_start
          /\ track.current.kind = "translation" => track.current.language \in seg.active_at_start
    /\ SegmentOver => TranslationsPublished = seg.active_at_start

\* 'ar' joined while the segment before was in flight and was not published
\* for it; the segment after it asked for 'ar' and 'es', lost 'es' from the
\* active set while in flight, and published both.
C10_Witness ==
    /\ "ar" \in prev.added
    /\ "ar" \notin prev.languages
    /\ "es" \in prev.languages
    /\ SegmentOver
    /\ seg.active_at_start = {"ar", "es"}
    /\ "es" \notin active_languages
    /\ TranslationsPublished = {"ar", "es"}

\* C11: every segment the segmenter emits while a translator is configured
\* starts an Engine call on the languages active at that moment, an empty
\* active set included (transcription only), and the transcription the call
\* gave is published.
C11_EngineForEverySegment ==
    /\ HasTranslator => calls_made = segment_count
    /\ InFlight => call.target_languages = seg.active_at_start
    /\ (track.pc = "waiting" /\ calls_made > 0 /\ Truthy(call.result.transcription))
          => \E i \in DOMAIN seg.published : seg.published[i].kind = "transcription"

\* C12: within one segment the transcription caption, published under the
\* source language code, goes out before every translation caption of the
\* segment, and each translation caption carries the text the result holds
\* for the language it is published under.
C12_TranscriptionFirst ==
    /\ \A i \in DOMAIN seg.published :
          seg.published[i].kind = "transcription"
              => i = 1 /\ seg.published[i].language = source_language_code
    /\ (track.pc = "publishing" /\ track.current.kind = "transcription")
          => /\ seg.published = <<>>
             /\ track.current.language = source_language_code
    /\ (track.pc = "publishing" /\ track.current.kind = "translation")
          => /\ track.current.language \in DOMAIN call.result.translations.m
             /\ track.current.text = call.result.translations.m[track.current.language]
             /\ Truthy(call.result.transcription)
                   => Len(seg.published) >= 1 /\ seg.published[1].kind = "transcription"

\* A finished segment of three captions: the transcription, then 'ar' and 'es'.
C12_Witness ==
    /\ SegmentOver
    /\ Len(seg.published) = 3
    /\ seg.published[1] = [kind |-> "transcription", language |-> "en"]
    /\ TranslationsPublished = {"ar", "es"}

\* The translation captions of the segment the loop has still to send, the one
\* in the send included.
TranslationsDue ==
    track.remaining \cup (IF track.pc = "publishing" /\ track.current.kind = "translation"
                           THEN {track.current.language} ELSE {})

\* C13: a send that raises, for the transcription or for one language, stays
\* inside publish_transcription.  While the captions of a segment go out,
\* whatever sends have raised so far, every language of the segment is either
\* sent or still due; when the segment is over every language of the segment
\* has had its send, the transcription too, and the loop waits for the next
\* event.
C13_PublishFailureContained ==
    /\ watch.failed \subseteq CaptionLanguages \cup {source_language_code}
    /\ track.pc = "publishing"
          => TranslationsPublished \cup TranslationsDue = seg.active_at_start
    /\ SegmentOver
          => /\ TranslationsPublished = seg.active_at_start
             /\ Truthy(call.result.transcription)
                   => seg.published[1].kind = "transcription"

\* The sends of the transcription and of 'es' raised in the first segment, all
\* three captions of that segment had their send, and the second segment is on
\* its way to the model.
C13_Witness ==
    /\ watch.failed = {"en", "es"}
    /\ prev.languages = {"en", "es", "ar"}
    /\ segment_count = 2
    /\ calls_made = 2
    /\ track.pc = "translating"
    /\ seg.published = <<>>

\* process_vad_events is in its loop: waiting for an event, or inside the
\* handling of one.
Draining == track.pc \in {"waiting", "translating", "publishing"}

\* C14: an exception raised while one classifier event is handled does not end
\* the event-draining duty.  As long as the frame source goes on and the task
\* is not cancelled, process_vad_events is in its loop after every event it
\* has taken, so that the next end-of-speech event can produce a segment.
C14_DrainingSurvives ==
    (watch.event # NoEvent /\ push = "pushing") => Draining

\* C16: a segment is produced only by an end-of-speech event that carries at
\* least one frame.  A step that takes a start-of-speech event, or an
\* end-of-speech event without frames, leaves segment_count and the number of
\* Engine calls as they were and starts no call; a step that changes
\* segment_count took an end-of-speech event with frames and counted it once.
C16_SegmentOnlyOnEndWithFrames ==
    [][ /\ watch'.ends = watch.ends
              => /\ segment_count' = segment_count
                 /\ total_segments_processed' = total_segments_processed
                 /\ calls_made' = calls_made
                 /\ track'.pc = "translating" => track.pc = "translating"
        /\ segment_count' # segment_count
              => /\ watch'.event.type = "END_OF_SPEECH"
                 /\ watch'.event.frames > 0
                 /\ watch'.ends = watch.ends + 1
                 /\ segment_count' = segment_count + 1 ]_vars

\* After one segment was cut, translated and published, an end-of-speech event
\* without frames was taken while speech was open: still one segment, one call.
C16_Witness ==
    /\ watch.event = [type |-> "END_OF_SPEECH", frames |-> 0]
    /\ watch.ends = 1
    /\ segment_count = 1
    /\ calls_made = 1
    /\ SegmentOver

\* C15: once the frame source has ended or raised, or the task was cancelled,
\* the classifier is closed by push_audio_frames, process_vad_events leaves its
\* loop and process_track completes.
C15_TrackCompletes == (push = "closed") ~> Completed

\* The same for the tracks none of whose requests hangs.
TrackCompletesUnlessHung == []~watch.hung => C15_TrackCompletes

\* Speech that was opened and not ended adds no segment: the segments are the
\* end-of-speech events with frames, whatever speech the classifier has open
\* when the track is over.
NoSegmentWithoutEnd == segment_count = watch.ends

\* C19: a request the model service never answers is in the end treated as a
\* failure: translate_and_publish leaves its await, so that the loop of
\* process_vad_events takes the events that follow.
C19_HungCallGivenUp == watch.hung ~> (track.pc # "translating")

\* C17: at every point of a session at most one teacher track has a running
\* segmenter: no track_subscribed event starts a second process_track task
\* while one is running.
C17_OneTeacherTrack == Len(tasks) <= 1

\* A participant whose track has a process_track task has left the room.
TeacherLeft == \E i \in DOMAIN tasks : ~room[tasks[i]].connected

\* No segmenter runs and the state of the session is released.
Ended == tasks = <<>> /\ active_languages = {} /\ conversation_history = <<>>

\* C18: when the bound teacher disconnects the session reaches Ended: the
\* segmenter of the teacher's track is stopped, the active-language set and
\* the conversation context are emptied.
C18_TeacherLeaveEnds == TeacherLeft ~> Ended

\* The captions languages the participants in the room ask for now.
Requested ==
    { room[p].captions_language : p \in { q \in Participants : room[q].connected } }
        \ {Absent, Cleared}

\* C20: every code in the active-language set is the captions_language that a
\* participant in the room requests now.
C20_ActiveIsRequested == active_languages \subseteq Requested

\* The smaller of two numbers.
Min(a, b) == IF a < b THEN a ELSE b

\* The entries of the context are pairs: a transcription entry of role 'user'
\* and, right after it, the translations entry of role 'model'.
Paired(history) ==
    /\ Len(history) % 2 = 0
    /\ \A i \in DOMAIN history :
          history[i].role = (IF i % 2 = 1 THEN "user" ELSE "model")

\* C21: after k history updates with pair limit N the conversation context
\* holds at most 2 * N entries and is exactly the min(k, N) pairs appended
\* last, each the transcription entry followed by its translations entry.
\* _update_history is called once for every request counted as successful.
C21_ContextIsRecentPairs ==
    /\ Len(conversation_history) <= 2 * max_context_segments
    /\ Paired(conversation_history)
    /\ Len(conversation_history) = 2 * Min(stats.successful_requests, max_context_segments)

\* C22: add_language and remove_language are idempotent.  On every active
\* set the session reaches, adding a code that is present and removing a code
\* that is absent give the set back, and a second call of either with the
\* same code changes nothing after the first.
C22_Idempotent ==
    \A code \in CaptionLanguages :
        /\ code \in active_languages => add_language(active_languages, code) = active_languages
        /\ code \notin active_languages
              => remove_language(active_languages, code) = active_languages
        /\ add_language(add_language(active_languages, code), code)
              = add_language(active_languages, code)
        /\ remove_language(remove_language(active_languages, code), code)
              = remove_language(active_languages, code)
        /\ code \in add_language(active_languages, code)
        /\ code \notin remove_language(active_languages, code)

\* Both languages are active after two add_language calls, 'ar' the later one,
\* and a segment is in flight: adding 'es' again gives the same two.
C22_Witness ==
    /\ active_languages = {"es", "ar"}
    /\ seg.added = {"ar"}
    /\ InFlight
    /\ add_language(active_languages, "es") = {"es", "ar"}

RECURSIVE Samples(_)
\* The samples the frames hold.
Samples(frames) == IF frames = <<>> THEN 0 ELSE Head(frames).samples + Samples(Tail(frames))

\* C23: the duration computed for a segment is the total sample count of its
\* frames over the sample rate: the dividend is the number of samples the
\* frames hold, the divisor the rate of the first frame, and frames of 16000
\* samples in all at 16000 Hz give the quotient one.
C23_DurationIsSamplesOverRate ==
    meter.pc = "done"
        => /\ meter.total_samples = Samples(meter.frames)
           /\ meter.frames[1].has_rate => meter.sample_rate = meter.frames[1].sample_rate
           /\ (Samples(meter.frames) = 16000 /\ meter.sample_rate = 16000)
                 => meter.total_samples = meter.sample_rate

\* The call returned the filtered-content marker for the transcription and
\* every language asked for.
IsFiltered ==
    call.result = Returned(JStr(MarkerFiltered), AllMarked(call.target_languages, MarkerFiltered))

IsUnavailable ==
    call.result = Returned(JStr(MarkerUnavailable),
                           AllMarked(call.target_languages, MarkerUnavailable))

\* An attempt that ended in an exception: raised by the client, or by the
\* code for a response without candidates, without parts or without text.
Excepted(class) == class \notin {"safety", "text"}

\* C29 as stated: the call returns the filtered-content marker exactly when
\* both attempts were blocked by the safety filter; an exception followed by
\* a safety block, a safety block followed by an exception and two
\* exceptions return the unavailable marker.
C29_FilteredIffBothBlocked ==
    Done =>
        /\ IsFiltered <=> call.observed = <<"safety", "safety">>
        /\ (/\ Len(call.observed) = MaxAttempts
            /\ \A i \in DOMAIN call.observed : call.observed[i] # "text"
            /\ \E i \in DOMAIN call.observed : Excepted(call.observed[i]))
                => IsUnavailable

\* C29, amended: the call returns the filtered-content marker exactly when
\* its second attempt was blocked by the safety filter, whether the first was
\* blocked or ended in a retried exception; a call whose last attempt ended
\* in an exception returns the unavailable marker.
C29_FilteredIffLastBlocked ==
    Done =>
        /\ IsFiltered <=> (Len(call.observed) = MaxAttempts /\ call.observed[MaxAttempts] = "safety")
        /\ (call.observed # <<>> /\ Excepted(call.observed[Len(call.observed)])) => IsUnavailable

\* A connection error, then a safety block.
C29_Witness ==
    Done /\ call.observed = <<"ConnectionError", "safety">> /\ IsFiltered
         /\ call.target_languages = {"es"}

\* The history with one pair more: the transcription entry, then the
\* translations entry, the oldest entries leaving at the limit.
WithPair(history, transcription, translations) ==
    DequeAppend(DequeAppend(history, [role |-> "user", content |-> transcription]),
                [role |-> "model", content |-> translations])

\* C30: a call that returns a parsed model result extends the conversation
\* context by exactly the pair of its transcription and its translations; a
\* call that returns the unavailable result, the filtered result or the
\* empty-audio result leaves the context as it was.
C30_OnePairPerParsedResult ==
    Done =>
        conversation_history =
            IF call.wav_bytes = 0 \/ IsUnavailable \/ IsFiltered \/ call.result.exc # "none"
            THEN before.conversation_history
            ELSE WithPair(before.conversation_history, call.result.transcription,
                          call.result.translations)

\* C31: the request of a call's first attempt carries the full prompt and
\* the request of its second attempt the simple prompt, whatever calls were
\* made before; a first attempt blocked by the safety filter is followed by a
\* second attempt.
C31_PromptByAttempt ==
    /\ call.pc = "awaiting" =>
        /\ call.request.contents.prompt.variant =
               (IF call.observed = <<>> THEN "full" ELSE "simple")
        /\ call.attempt = Len(call.observed)
        /\ call.requests = Len(call.observed) + 1
    /\ call.observed = <<"safety">> => call.pc = "awaiting"

\* The second call on a translator, at its second attempt after a safety block.
C31_Witness ==
    /\ call.pc = "awaiting"
    /\ call.observed = <<"safety">>
    /\ call.request.contents.prompt.variant = "simple"
    /\ calls_made = 2

(***************************************************************************)
(* Properties of the worker's start (SpecBoot)                             *)
(***************************************************************************)
RequiredNames == {"LIVEKIT_URL", "LIVEKIT_API_KEY", "LIVEKIT_API_SECRET", "GOOGLE_CLOUD_PROJECT"}

AllSet == \A n \in RequiredNames : boot.environ[n] \notin {Absent, ""}

PrewarmOver == boot.pc \in {"aborted", "prewarmed", "running"}

\* The errors validate gives for the loaded configuration are none exactly
\* when the four names are set, and no job runs without them.
ValidatedExactly ==
    /\ boot.pc # "unloaded" => (validate(boot.config) = <<>> <=> AllSet)
    /\ boot.pc \in {"prewarmed", "running"} => AllSet

LlmFailure ==
    \E task \in TaskNames :
        /\ trans.task[task].pc = "streaming"
        /\ trans'.task[task].pc = "idle"
        /\ trans'.last.llm_failed

\* C25: translate never raises; when the LLM request fails, error_count grows
\* by one and the one caption sent is the original message with the error
\* marker under the translator's language code; when that publish raises
\* too, nothing is sent and translate still returns.
C25_FailureGivesFallback ==
    [][/\ trans'.last.raised = FALSE
       /\ LlmFailure =>
            /\ trans'.error_count = trans.error_count + 1
            /\ trans'.success_count = trans.success_count
            /\ trans'.last.outcome \in {"published", "nothing"}
            /\ trans'.last.marker
            /\ trans'.last.text = trans'.last.call.message
            /\ trans'.last.language = LanguageCode]_vars

C25_Witness ==
    /\ trans.last.llm_failed
    /\ trans.last.outcome = "nothing"
    /\ trans.error_count = 1
    /\ ~trans.last.raised

\* A call served from the cache counted one hit and sent the cached text.
HitPublishesCached ==
    [][\A message \in Messages :
        (trans'.started = trans.started + 1 /\ trans.translation_cache[message] # Absent)
            => /\ trans'.cache_hits = trans.cache_hits + 1
               /\ trans'.llm_requests = trans.llm_requests
               /\ trans'.last.call.hit
               /\ ~trans'.last.marker => trans'.last.text = trans.translation_cache[message]]_vars

C27_ClosedExactlyOnce ==
    /\ \A caller \in StopCallers :
        transcriber.stop[caller] = "done" => ~transcriber.active /\ ~transcriber.session
    /\ transcriber.closes <= 1
    /\ (StartReturned /\ transcriber.opened) => transcriber.closes = 1

(***************************************************************************)
(* Properties of the source language of a segment (SpecSource)             *)
(***************************************************************************)
\* C28: the transcription of a segment is published under the code of the
\* source language whose name was sent to the model when the segment's call
\* started, whatever set_source_language did while the call was in flight.
C28_SourceLanguageOfSegment ==
    (track.pc = "publishing" /\ track.current.kind = "transcription")
        => GetLanguageName(track.current.language) = call.source_language

(***************************************************************************)
(* Properties of the session of main.py (SpecStreaming)                    *)
(***************************************************************************)
\* C32: once the session has ended no task started for it is running and no
\* STT stream is open: the task of start is over, the forwarding task is
\* done or cancelled, no translate task is in flight, however the frame loop
\* ended.
C32_NothingRunsAfterTeardown ==
    stt.session = "ended" =>
        /\ stt.start # "streaming"
        /\ stt.forward_task # "running"
        /\ stt.stt_stream # "open"
        /\ stt.translating = 0

(***************************************************************************)
(* Properties of the start of a segmenter (SpecJoinLive)                   *)
(***************************************************************************)
\* The participant passes is_teacher and the agent is subscribed to the
\* participant's audio track.
TeacherWithTrack(p) == room[p].connected /\ p \in joined.subscribed /\ is_teacher(p)

\* A process_track task was created for the participant's track.
SegmenterStarted(p) == \E i \in DOMAIN tasks : tasks[i] = p

\* C33: whenever a participant classified as teacher has a subscribed audio
\* track, a segmenter is eventually started for it (unless the participant
\* leaves first), also when the track was subscribed before the handlers
\* were registered and when the participant became a teacher afterwards.
C33_TeacherTrackStarts ==
    \A p \in Participants : TeacherWithTrack(p) ~> (SegmenterStarted(p) \/ ~TeacherWithTrack(p))

(***************************************************************************)
(* Properties of is_teacher (SpecClassify)                                 *)
(***************************************************************************)
\* The metadata is a JSON text whose value has the role 'teacher'.
RoleIsTeacher(participant) ==
    /\ participant.metadata.present
    /\ JsonLoads(participant.metadata.text).ok
    /\ LET v == JsonLoads(participant.metadata.text).v IN
        /\ v.k = "obj"
        /\ "role" \in DOMAIN v.m
        /\ v.m["role"].k = "str"
        /\ v.m["role"].s = "teacher"

HasSpeakingLanguage(participant) == participant.speaking_language \notin {Absent, Cleared}

NameSaysTeacher(participant) ==
    /\ participant.name.present
    /\ \E i \in DOMAIN participant.name.text :
        LowerPiece[participant.name.text[i]] \in {"teacher", "speaker"}

\* C34: is_teacher returns, and returns true exactly when the metadata role is
\* 'teacher', or the speaking_language attribute is non-empty, or the
\* lower-cased name contains 'teacher' or 'speaker'; metadata that is absent
\* or gives no role falls through to the later checks without raising.
C34_TeacherIffOneCheckHolds ==
    classified.pc # "new" =>
        /\ classified.pc = "returned"
        /\ classified.value <=> \/ RoleIsTeacher(classified.participant)
                                \/ HasSpeakingLanguage(classified.participant)
                                \/ NameSaysTeacher(classified.participant)

(***************************************************************************)
(* Properties of two calls in flight (SpecPair)                            *)
(***************************************************************************)
RECURSIVE Replay(_, _)
Replay(engine, outcomes) ==
    IF outcomes = <<>> THEN engine
    ELSE Replay(Resume(engine.stats, engine.conversation_history, engine.call, Head(outcomes)),
                Tail(outcomes))

\* The call of caller i run alone: from the translator as the call found it,
\* with the same arguments and the same outcomes of its awaits.
Alone(i) ==
    LET frame == pair.frames[i] IN
    Replay(Enter(pair.entry[i].stats, pair.entry[i].conversation_history,
                 frame.wav_bytes, frame.target_languages, frame.source_language),
           pair.given[i]).call

\* C35: a call that runs while another call is in flight on the same
\* translator has the attempt number, the request (prompt variant included)
\* and the outcome it would have alone with the same model outcomes.
C35_CallsKeepOwnRetryState ==
    \A i \in Callers :
        pair.frames[i].pc # "idle" =>
            /\ pair.frames[i].attempt = Alone(i).attempt
            /\ pair.frames[i].request = Alone(i).request
            /\ pair.frames[i].pc = Alone(i).pc
            /\ pair.frames[i].result = Alone(i).result

\* One call is at its second attempt while the other, started after it, is
\* at its first.
C35_Witness ==
    /\ pair.frames[1].pc = "awaiting" /\ pair.frames[1].attempt = 1
    /\ pair.frames[1].request.contents.prompt.variant = "simple"
    /\ pair.frames[2].pc = "awaiting" /\ pair.frames[2].attempt = 0
    /\ pair.entry[2].stats.total_requests = 1

(***************************************************************************)
(* Properties of the LLM requests of main.py (SpecChat)                    *)
(***************************************************************************)
\* C36: every LLM request of Translator.translate in main.py carries exactly
\* two messages, the translator's system prompt and the current message,
\* whatever was translated before: the context does not grow.
C36_FreshContextOfTwoMessages ==
    chat.requests > 0 =>
        /\ Len(chat.sent) = 2
        /\ chat.sent = <<system_prompt, [role |-> "user", content |-> chat.message]>>

\* A third request, made after two other messages were sent.
C36_Witness ==
    /\ chat.requests = 3
    /\ Len(chat.earlier) = 2
    /\ chat.earlier[1] # chat.message /\ chat.earlier[2] # chat.message

(***************************************************************************)
(* Properties of the order of segments within a track (SpecProcessor)      *)
(***************************************************************************)
\* No caption of the segment in hand is left to publish.
NothingLeft == ~track.transcription_due /\ track.remaining = {}

\* C37: within a track the engine call of the next segment starts only when
\* the loop is back at its event wait with every caption of the segment
\* before published or failed; a call in flight belongs to the one segment in
\* translation, and captions are published only after its call returned.
C37_OneSegmentAtATime ==
    /\ [](call.pc = "awaiting" => track.pc = "translating")
    /\ [](track.pc = "publishing" => call.pc = "returned")
    /\ [][calls_made' # calls_made =>
            /\ track.pc = "waiting"
            /\ NothingLeft
            /\ call.pc # "awaiting"
            /\ calls_made' = calls_made + 1]_vars

\* The call of a second segment is in flight after captions of the first
\* were published.
C37_Witness ==
    /\ calls_made = 2
    /\ segment_count = 2
    /\ call.pc = "awaiting"
    /\ track.pc = "translating"
    /\ prev.languages # {}

(***************************************************************************)
(* Properties of the translator's counters and context (SpecEngine)        *)
(***************************************************************************)
\* C38: after every completed call the counters add up, total_requests =
\* successful_requests + failed_requests: a call with non-empty audio is
\* counted once in total_requests and once as successful or as failed.
C38_CountersAddUp ==
    Done => stats.total_requests = stats.successful_requests + stats.failed_requests

\* The text is one of the markers the translator writes in place of a result.
IsMarker(v) == v.k = "str" /\ v.s \in ErrorMarkers

\* The content of a history entry holds a marker: the transcription of a user
\* entry is one, or one of the translations joined in a model entry is.
HoldsMarker(entry) ==
    \/ IsMarker(entry.content)
    \/ /\ entry.content.k = "obj"
       /\ \E l \in DOMAIN entry.content.m : IsMarker(entry.content.m[l])

\* C39: the conversation context never holds error-marker text, so no marker
\* is replayed to the model as a prior turn of the next segment.
C39_NoMarkerInContext ==
    \A i \in DOMAIN conversation_history : ~HoldsMarker(conversation_history[i])

(***************************************************************************)
(* Properties of the PerformanceMonitor counters (SpecTranslator)          *)
(***************************************************************************)
\* The translate calls that have returned: every call started and not waiting
\* for its stream, and the calls for texts translated once.
CompletedCalls ==
    trans.started + trans.fresh
        - Cardinality({task \in TaskNames : trans.task[task].pc = "streaming"})

\* C40: every completed translate call increments exactly one of
\* success_count and error_count, so their sum is the number of completed
\* calls, also for a call whose translation succeeded and whose publish
\* failed.
C40_OneCountPerCall == trans.success_count + trans.error_count = CompletedCalls

====
